---------------------------- MODULE Spec2Model ----------------------------
(***************************************************************************)
(* A model of jfinqa's arithmetic-program interpreter                      *)
(* (scripts/pipeline/dsl.py), of its answer normalisation and matching     *)
(* (src/jfinqa/_metrics.py), of its evaluation engine                      *)
(* (src/jfinqa/evaluate.py) and of the validation stage of its dataset     *)
(* pipeline (scripts/pipeline/s4_validate.py).                             *)
(*                                                                         *)
(* Text is modelled as it is in the code: a string is a sequence of        *)
(* one-character strings, and the interpreter's regular expression, its    *)
(* argument splitter and Python's int()/float() parsers work on those      *)
(* characters.  Numbers are exact rationals n/d (d > 0, lowest terms); the *)
(* IEEE values +inf, -inf and nan are the pairs 1/0, -1/0 and 0/0.  The    *)
(* rounding error of binary floating point is not modelled.                *)
(***************************************************************************)
EXTENDS Integers, Sequences, FiniteSets, TLC

VARIABLES
    program,        \* execute_program: the list of step texts it was called with
    i,              \* execute_program: index of the step the loop is at
    results,        \* execute_program: the list of per-step results
    pc,             \* execute_program: "idle" | "start" | "loop" | "done" | "raised"
    outcome,        \* execute_program: what the call produced (return value or exception)
    answer,         \* normalize_answer: its argument
    normalized,     \* normalize_answer(answer)
    renormalized,   \* normalize_answer(normalize_answer(answer))
    predicted,      \* numerical_match: the predicted answer
    gold,           \* numerical_match: the gold answer
    rel_tolerance,  \* numerical_match: the relative tolerance, a rational
    pred_num,       \* numerical_match: extract_number(predicted)
    gold_num,       \* numerical_match: extract_number(gold)
    verdict,        \* numerical_match: the value returned
    entries,        \* evaluate: the list of questions it was called with
    predictions,    \* evaluate: the predictions argument (None, or a dict of id to answer)
    model_fn,       \* evaluate: the model_fn argument (None, or a callable)
    match_mode,     \* evaluate: the match_mode argument
    numerical_tolerance, \* evaluate: the numerical_tolerance argument, a rational
    scored,         \* evaluate: results, the list of QuestionResult records
    model_calls,    \* evaluate: the number of times model_fn has been called
    benchmark,      \* evaluate: the BenchmarkResult returned
    epc,            \* evaluate: "idle" | "called" | "loop" | "returned" | "ValueError"
    compared,       \* the two answer matchers side by side: what each makes of predicted and gold
    mpc,            \* the metrics call: "idle" | "start" | "normalized" | "renormalized" | "extracted" | "done" | "raised"
    candidates,     \* run: the candidate records loaded from the generated files
    total_loaded,   \* run: the number of candidates the batch loop has taken
    by_subtask,     \* run: for each subtask, the list of candidates that passed
    rejected,       \* run: the list of {"question": q, "reason": reason} entries
    passed,         \* run: whether validate_question accepted the last candidate
    reason,         \* run: the reason validate_question gave for the last candidate
    rpc,            \* run: "idle" | "loop" | "done", or the type of the exception that ended it
    questions,      \* _deduplicate, _sample_diverse: the list of questions passed in
    target,         \* _sample_diverse: the number of questions asked for
    total_questions,\* _sample_diverse: the size of the whole dataset
    selected,       \* _deduplicate: unique; _sample_diverse: result, and the list returned
    q_k,            \* _deduplicate: the number of questions the loop has taken
    company_caches, \* _deduplicate: for each company, the trigram sets of its kept questions
    company_counts, \* _sample_diverse: for each company, the number of questions taken
    idx_per_company,\* _sample_diverse: for each company, the index of its next question
    code_k,         \* _sample_diverse: the place of the for loop in company_codes, from 1
    added_this_round, \* _sample_diverse: whether the round has added a question
    spc             \* the selection call: "idle" | "called" | "while" | "for" | "dedup" | "returned"

dslVars == <<program, i, results, pc, outcome>>

metricVars ==
    <<answer, normalized, renormalized, predicted, gold, rel_tolerance,
      pred_num, gold_num, verdict, compared, mpc>>

evalVars ==
    <<entries, predictions, model_fn, match_mode, numerical_tolerance, scored,
      model_calls, benchmark, epc>>

runVars == <<candidates, total_loaded, by_subtask, rejected, passed, reason, rpc>>

selectVars ==
    <<questions, target, total_questions, selected, q_k, company_caches, company_counts,
      idx_per_company, code_k, added_this_round, spc>>

pipeVars == <<runVars, selectVars>>

vars == <<dslVars, metricVars, evalVars, pipeVars>>

-----------------------------------------------------------------------------
(* Bounds of the model *)

\* Longest program the interpreter is called with.
MaxSteps == 2

-----------------------------------------------------------------------------
(* Characters *)

Digits == {"0", "1", "2", "3", "4", "5", "6", "7", "8", "9"}

LowerLetters ==
    {"a", "b", "c", "d", "e", "f", "g", "h", "i", "j", "k", "l", "m",
     "n", "o", "p", "q", "r", "s", "t", "u", "v", "w", "x", "y", "z"}

UpperLetters == {"A", "E", "F", "R", "T", "U"}

\* The characters the regular expression class \w matches.
WordChars == Digits \cup LowerLetters \cup UpperLetters \cup {"_"}

\* Characters outside ASCII are written by name: TRI_W and TRI_B are the white
\* and the black triangle (U+25B3, U+25B2); H_shi, H_ma, H_ta the hiragana of
\* the verb endings; J_yen, J_sen, J_hyaku, J_man, J_oku, J_cho the kanji of the
\* yen and of the scale words; J_zou, J_ka, J_shuu, J_eki, J_kai, J_zen, J_ichi,
\* J_chi, J_gen, J_aku, J_bake, J_fu, J_shou and the hiragana H_ha, H_i, H_e
\* the characters of the categorical answers;
\* K_do, K_ru, K_po, K_i, K_n, K_to the katakana of the unit words; FW_1,
\* FW_A, FW_comma, FW_percent and FW_space the fullwidth 1, A, comma, percent
\* sign and the ideographic space.

\* The characters str.strip() removes: the model's texts hold no other
\* whitespace than the space and the ideographic space.
IsSpace(c) == c \in {" ", "FW_space"}

\* The model's characters in code point order (str comparison is by code point).
CharOrder ==
    <<" ", "#", "(", ")", "+", ",", "-", ".",
      "0", "1", "2", "3", "4", "5", "6", "7", "8", "9",
      "A", "E", "F", "R", "T", "U", "_",
      "a", "b", "c", "d", "e", "f", "g", "h", "i", "j", "k", "l", "m",
      "n", "o", "p", "q", "r", "s", "t", "u", "v", "w", "x", "y", "z">>

CharCode(c) == CHOOSE k \in 1..Len(CharOrder) : CharOrder[k] = c

DigitVal(c) ==
    CASE c = "0" -> 0 [] c = "1" -> 1 [] c = "2" -> 2 [] c = "3" -> 3
      [] c = "4" -> 4 [] c = "5" -> 5 [] c = "6" -> 6 [] c = "7" -> 7
      [] c = "8" -> 8 [] c = "9" -> 9

\* str.lower() on one character.
LowerChar(c) ==
    CASE c = "A" -> "a" [] c = "E" -> "e" [] c = "F" -> "f" [] c = "R" -> "r"
      [] c = "T" -> "t" [] c = "U" -> "u" [] OTHER -> c

Lower(s) == [k \in 1..Len(s) |-> LowerChar(s[k])]

RECURSIVE LStrip(_)
LStrip(s) == IF s # <<>> /\ IsSpace(Head(s)) THEN LStrip(Tail(s)) ELSE s

RECURSIVE RStrip(_)
RStrip(s) ==
    IF s # <<>> /\ IsSpace(s[Len(s)]) THEN RStrip(SubSeq(s, 1, Len(s) - 1)) ELSE s

\* str.strip()
Strip(s) == RStrip(LStrip(s))

\* str.startswith(p)
StartsWith(s, p) == Len(s) >= Len(p) /\ SubSeq(s, 1, Len(p)) = p

\* str.endswith(p)
EndsWith(s, p) == Len(s) >= Len(p) /\ SubSeq(s, Len(s) - Len(p) + 1, Len(s)) = p

\* str.replace(c, "") for a one-character c
RemoveChar(s, c) == SelectSeq(s, LAMBDA x : x # c)

AllDigits(s) == \A k \in 1..Len(s) : s[k] \in Digits

RECURSIVE DecimalValue(_)
DecimalValue(s) ==
    IF s = <<>> THEN 0
    ELSE 10 * DecimalValue(SubSeq(s, 1, Len(s) - 1)) + DigitVal(s[Len(s)])

RECURSIVE Pow10(_)
Pow10(k) == IF k <= 0 THEN 1 ELSE 10 * Pow10(k - 1)

-----------------------------------------------------------------------------
(* Numbers: exact rationals with the three IEEE specials *)

Abs(x) == IF x < 0 THEN -x ELSE x

RECURSIVE Gcd(_, _)
Gcd(a, b) == IF b = 0 THEN a ELSE Gcd(b, a % b)

\* n/d in lowest terms with d > 0 (d # 0 on entry).
Norm(n, d) ==
    LET g == Gcd(Abs(n), Abs(d))
        sg == IF d < 0 THEN -1 ELSE 1
    IN  [n |-> sg * (n \div g), d |-> sg * (d \div g)]

QInf == [n |-> 1, d |-> 0]
QNegInf == [n |-> -1, d |-> 0]
QNan == [n |-> 0, d |-> 0]
QInt(k) == [n |-> k, d |-> 1]

IsNan(q) == q.d = 0 /\ q.n = 0
IsInfinite(q) == q.d = 0 /\ q.n # 0
IsFinite(q) == q.d # 0
QSign(q) == IF q.n > 0 THEN 1 ELSE IF q.n < 0 THEN -1 ELSE 0

QNeg(q) == [n |-> -q.n, d |-> q.d]

QAdd(a, b) ==
    IF IsNan(a) \/ IsNan(b) THEN QNan
    ELSE IF IsInfinite(a) THEN (IF IsInfinite(b) /\ b.n # a.n THEN QNan ELSE a)
    ELSE IF IsInfinite(b) THEN b
    ELSE Norm(a.n * b.d + b.n * a.d, a.d * b.d)

QSub(a, b) == QAdd(a, QNeg(b))

QMul(a, b) ==
    IF IsNan(a) \/ IsNan(b) THEN QNan
    ELSE IF IsInfinite(a) \/ IsInfinite(b)
         THEN (IF QSign(a) * QSign(b) = 0 THEN QNan
               ELSE [n |-> QSign(a) * QSign(b), d |-> 0])
    ELSE Norm(a.n * b.n, a.d * b.d)

\* a / b for b # 0
QDiv(a, b) ==
    IF IsNan(a) \/ IsNan(b) THEN QNan
    ELSE IF IsInfinite(a)
         THEN (IF IsInfinite(b) THEN QNan ELSE [n |-> QSign(a) * QSign(b), d |-> 0])
    ELSE IF IsInfinite(b) THEN QInt(0)
    ELSE Norm(a.n * b.d, a.d * b.n)

QLess(a, b) ==
    IF IsNan(a) \/ IsNan(b) THEN FALSE
    ELSE IF IsInfinite(a) /\ IsInfinite(b) THEN a.n < b.n
    ELSE a.n * b.d < b.n * a.d

QEq(a, b) == ~IsNan(a) /\ ~IsNan(b) /\ a = b

QAbs(q) == [n |-> Abs(q.n), d |-> q.d]

\* a ** k for an integer k >= 0
RECURSIVE QPowNat(_, _)
QPowNat(a, k) == IF k = 0 THEN QInt(1) ELSE QMul(a, QPowNat(a, k - 1))

\* floor(n/d) for d > 0
FloorDiv(n, d) == IF n >= 0 THEN n \div d ELSE -((-n + d - 1) \div d)

\* The integer nearest to n/d (d > 0), a tie going to the even one.
RoundHalfEven(n, d) ==
    LET f == FloorDiv(n, d)
        r2 == 2 * (n - f * d)
    IN  IF r2 < d THEN f
        ELSE IF r2 > d THEN f + 1
        ELSE IF f % 2 = 0 THEN f ELSE f + 1

\* int(x) of a finite number: truncation towards zero
Trunc(q) == IF q.n >= 0 THEN q.n \div q.d ELSE -((-q.n) \div q.d)


-----------------------------------------------------------------------------
(* Step results: Python values int, float, bool and str *)

IntV(k) == [t |-> "int", q |-> QInt(k), s |-> <<>>]
FloatV(x) == [t |-> "float", q |-> x, s |-> <<>>]
BoolV(b) == [t |-> "bool", q |-> QInt(IF b THEN 1 ELSE 0), s |-> <<>>]
StrV(str) == [t |-> "str", q |-> QInt(0), s |-> str]
\* Python's None, where no value is produced.
NoneV == [t |-> "none", q |-> QInt(0), s |-> <<>>]

\* isinstance(v, (int, float)): bool is a subclass of int.
IsNum(v) == v.t \in {"int", "float", "bool"}
IsIntLike(v) == v.t \in {"int", "bool"}
IsStr(v) == v.t = "str"

\* float | None, what extract_number returns
NoNumber == [some |-> FALSE, q |-> QNan]
SomeNumber(x) == [some |-> TRUE, q |-> x]

\* What a function call produces: a value, or a raised exception.
Ok(v) == [exc |-> "none", val |-> v]
Raise(e) == [exc |-> e, val |-> NoneV]

\* int op int is an int, anything with a float is a float.
NumResult(a, b, x) == IF IsIntLike(a) /\ IsIntLike(b) THEN IntV(x.n) ELSE FloatV(x)

\* str < str: lexicographic, by code point
RECURSIVE StrLess(_, _)
StrLess(a, b) ==
    IF b = <<>> THEN FALSE
    ELSE IF a = <<>> THEN TRUE
    ELSE IF Head(a) = Head(b) THEN StrLess(Tail(a), Tail(b))
    ELSE CharCode(Head(a)) < CharCode(Head(b))

\* str * n: repetition
RECURSIVE Repeat(_, _)
Repeat(str, k) == IF k <= 0 THEN <<>> ELSE str \o Repeat(str, k - 1)

\* a < b of two values, as Python evaluates it
PyLess(a, b) ==
    IF IsNum(a) /\ IsNum(b) THEN Ok(BoolV(QLess(a.q, b.q)))
    ELSE IF IsStr(a) /\ IsStr(b) THEN Ok(BoolV(StrLess(a.s, b.s)))
    ELSE Raise("TypeError")

-----------------------------------------------------------------------------
(* Python's int() and float() on text *)

\* Digits, single underscores allowed between them.
DigitRun(s) ==
    /\ s # <<>>
    /\ \A k \in 1..Len(s) : s[k] \in Digits \cup {"_"}
    /\ s[1] \in Digits /\ s[Len(s)] \in Digits
    /\ \A k \in 1..(Len(s) - 1) : ~(s[k] = "_" /\ s[k + 1] = "_")

\* The sign a numeric text starts with: -1 for "-", 1 otherwise.
SignOf(s) == IF s # <<>> /\ Head(s) = "-" THEN -1 ELSE 1

\* A numeric text without its leading sign.
Unsigned(s) == IF s # <<>> /\ Head(s) \in {"+", "-"} THEN Tail(s) ELSE s

\* int() on the digits left after the sign.
IntOfBody(body, sign) ==
    IF DigitRun(body)
    THEN [ok |-> TRUE, n |-> sign * DecimalValue(RemoveChar(body, "_"))]
    ELSE [ok |-> FALSE, n |-> 0]

\* int(text): [ok, n]; ok is FALSE where int() raises ValueError.
IntParse(text) == IntOfBody(Unsigned(Strip(text)), SignOf(Strip(text)))

\* Position of the first "." of s, 0 if there is none.
DotAt(s) ==
    IF \E k \in 1..Len(s) : s[k] = "."
    THEN CHOOSE k \in 1..Len(s) : s[k] = "." /\ \A j \in 1..(k - 1) : s[j] # "."
    ELSE 0

\* The digits of an integer part from its first nonzero digit on.
Significant(ip) ==
    IF \E k \in 1..Len(ip) : ip[k] \notin {"0", "_"}
    THEN SubSeq(ip, CHOOSE k \in 1..Len(ip) :
                        /\ ip[k] \notin {"0", "_"}
                        /\ \A j \in 1..(k - 1) : ip[j] \in {"0", "_"},
                Len(ip))
    ELSE <<>>

\* The integer part is 10^309 or more: above the largest double (below
\* 1.8 * 10^308), and float() gives an infinity.
FloatOverflows(ip) == Len(RemoveChar(Significant(ip), "_")) > 309

\* float() on the integer part ip and the fraction part fp of a text.  The
\* value is exact below the overflow; no text of the model has an integer
\* part of exactly 309 digits, where the overflow depends on the digits.
FloatOfParts(ip, fp, sign) ==
    IF /\ ip = <<>> \/ DigitRun(ip)
       /\ fp = <<>> \/ DigitRun(fp)
       /\ ip # <<>> \/ fp # <<>>
    THEN [ok |-> TRUE,
          q |-> IF FloatOverflows(ip) THEN (IF sign < 0 THEN QNegInf ELSE QInf)
                ELSE Norm(sign * DecimalValue(RemoveChar(ip, "_") \o RemoveChar(fp, "_")),
                          Pow10(Len(RemoveChar(fp, "_"))))]
    ELSE [ok |-> FALSE, q |-> QNan]

\* float() on the text left after the sign, split at its first ".".
FloatOfBody(body, dot, sign) ==
    IF dot = 0 THEN FloatOfParts(body, <<>>, sign)
    ELSE FloatOfParts(SubSeq(body, 1, dot - 1), SubSeq(body, dot + 1, Len(body)), sign)

\* float(text) for decimal notation: [ok, q]; ok is FALSE where float() raises
\* ValueError.  Exponent notation and the words inf and nan are not modelled
\* (no text of the model holds them).
FloatParse(text) ==
    FloatOfBody(Unsigned(Strip(text)), DotAt(Unsigned(Strip(text))), SignOf(Strip(text)))

-----------------------------------------------------------------------------
(* _OPS: the operator table.  Each operator takes the list of resolved     *)
(* arguments and gives Ok(value) or Raise(exception), as the lambda does   *)
(* when called with *args.                                                 *)

\* "add": lambda a, b: a + b
OpAdd(args) ==
    IF Len(args) # 2 THEN Raise("TypeError")
    ELSE LET a == args[1]
             b == args[2]
         IN  IF IsNum(a) /\ IsNum(b) THEN Ok(NumResult(a, b, QAdd(a.q, b.q)))
             ELSE IF IsStr(a) /\ IsStr(b) THEN Ok(StrV(a.s \o b.s))
             ELSE Raise("TypeError")

\* "subtract": lambda a, b: a - b
OpSubtract(args) ==
    IF Len(args) # 2 THEN Raise("TypeError")
    ELSE LET a == args[1]
             b == args[2]
         IN  IF IsNum(a) /\ IsNum(b) THEN Ok(NumResult(a, b, QSub(a.q, b.q)))
             ELSE Raise("TypeError")

\* "multiply": lambda a, b: a * b
OpMultiply(args) ==
    IF Len(args) # 2 THEN Raise("TypeError")
    ELSE LET a == args[1]
             b == args[2]
         IN  IF IsNum(a) /\ IsNum(b) THEN Ok(NumResult(a, b, QMul(a.q, b.q)))
             ELSE IF IsStr(a) /\ IsIntLike(b) THEN Ok(StrV(Repeat(a.s, b.q.n)))
             ELSE IF IsIntLike(a) /\ IsStr(b) THEN Ok(StrV(Repeat(b.s, a.q.n)))
             ELSE Raise("TypeError")

\* b != 0, as Python evaluates it for any value b
NotZero(b) == ~(IsNum(b) /\ QEq(b.q, QInt(0)))

\* divide giving the infinity the sign of the dividend.
OpDivide_SignedInf(args) ==
    IF Len(args) # 2 THEN Raise("TypeError")
    ELSE LET a == args[1]
             b == args[2]
         IN  IF NotZero(b)
             THEN (IF IsNum(a) /\ IsNum(b) THEN Ok(FloatV(QDiv(a.q, b.q)))
                   ELSE Raise("TypeError"))
             ELSE Ok(FloatV(IF IsNum(a) /\ a.q.n < 0 THEN QNegInf ELSE QInf))

\* "divide": lambda a, b: a / b if b != 0 else math.inf
OpDivide(args) ==
    IF Len(args) # 2 THEN Raise("TypeError")
    ELSE LET a == args[1]
             b == args[2]
         IN  IF NotZero(b)
             THEN (IF IsNum(a) /\ IsNum(b) THEN Ok(FloatV(QDiv(a.q, b.q)))
                   ELSE Raise("TypeError"))
             ELSE Ok(FloatV(QInf))

\* "exp": lambda a, b: a**b.  An exponent that is not a whole number gives an
\* irrational or a complex number, which the model has no value for: the
\* result is then the marker "unmodelled" (no program of the model gets there).
OpExp(args) ==
    IF Len(args) # 2 THEN Raise("TypeError")
    ELSE LET a == args[1]
             b == args[2]
         IN  IF ~(IsNum(a) /\ IsNum(b)) THEN Raise("TypeError")
             ELSE IF b.q.d # 1 THEN Raise("unmodelled")
             ELSE IF b.q.n >= 0
                  THEN Ok(NumResult(a, b, QPowNat(a.q, b.q.n)))
             ELSE IF QEq(a.q, QInt(0)) THEN Raise("ZeroDivisionError")
             ELSE Ok(FloatV(QDiv(QInt(1), QPowNat(a.q, -b.q.n))))

\* "greater": lambda a, b: a > b
OpGreater(args) ==
    IF Len(args) # 2 THEN Raise("TypeError") ELSE PyLess(args[2], args[1])

\* "less": lambda a, b: a < b
OpLess(args) ==
    IF Len(args) # 2 THEN Raise("TypeError") ELSE PyLess(args[1], args[2])

\* The interpreter's absolute tolerance of eq, 0.001, as 1/EqToleranceDen.
EqToleranceDen == 1000

\* "eq": abs(a - b) < 0.001 for two numbers, a == b otherwise
OpEq(args) ==
    IF Len(args) # 2 THEN Raise("TypeError")
    ELSE LET a == args[1]
             b == args[2]
         IN  IF IsNum(a) /\ IsNum(b)
             THEN Ok(BoolV(QLess(QAbs(QSub(a.q, b.q)), [n |-> 1, d |-> EqToleranceDen])))
             ELSE Ok(BoolV(IsStr(a) /\ IsStr(b) /\ a.s = b.s))

\* min(args)/max(args) of a non-empty tuple: the first element is kept until
\* a later one compares smaller (larger); a comparison may raise TypeError.
RECURSIVE Extreme(_, _, _)
Extreme(best, rest, wantLess) ==
    IF rest = <<>> THEN Ok(best)
    ELSE LET x == Head(rest)
             c == IF wantLess THEN PyLess(x, best) ELSE PyLess(best, x)
         IN  IF c.exc # "none" THEN c
             ELSE Extreme(IF c.val.q.n = 1 THEN x ELSE best, Tail(rest), wantLess)

\* "min": lambda *args: min(args)
OpMin(args) ==
    IF args = <<>> THEN Raise("ValueError") ELSE Extreme(Head(args), Tail(args), TRUE)

\* "max": lambda *args: max(args)
OpMax(args) ==
    IF args = <<>> THEN Raise("ValueError") ELSE Extreme(Head(args), Tail(args), FALSE)

\* "abs": lambda a: abs(a)
OpAbs(args) ==
    IF Len(args) # 1 THEN Raise("TypeError")
    ELSE LET a == args[1]
         IN  IF IsIntLike(a) THEN Ok(IntV(Abs(a.q.n)))
             ELSE IF IsNum(a) THEN Ok(FloatV(QAbs(a.q)))
             ELSE Raise("TypeError")

\* int(b) of a value
PyInt(b) ==
    IF IsStr(b)
    THEN (IF IntParse(b.s).ok THEN Ok(IntV(IntParse(b.s).n)) ELSE Raise("ValueError"))
    ELSE IF IsNan(b.q) THEN Raise("ValueError")
    ELSE IF IsInfinite(b.q) THEN Raise("OverflowError")
    ELSE Ok(IntV(Trunc(b.q)))

\* round(a, nd) for an int nd: ties go to the even digit
PyRound(a, nd) ==
    IF IsStr(a) THEN Raise("TypeError")
    ELSE IF IsIntLike(a)
         THEN (IF nd >= 0 THEN Ok(IntV(a.q.n))
               ELSE Ok(IntV(RoundHalfEven(a.q.n, Pow10(-nd)) * Pow10(-nd))))
    ELSE IF ~IsFinite(a.q) THEN Ok(a)
    ELSE IF nd >= 0
         THEN Ok(FloatV(Norm(RoundHalfEven(a.q.n * Pow10(nd), a.q.d), Pow10(nd))))
    ELSE Ok(FloatV(QInt(RoundHalfEven(a.q.n, a.q.d * Pow10(-nd)) * Pow10(-nd))))

\* "round": lambda a, b=0: round(a, int(b))
OpRound(args) ==
    IF Len(args) \notin {1, 2} THEN Raise("TypeError")
    ELSE LET nd == IF Len(args) = 2 THEN PyInt(args[2]) ELSE Ok(IntV(0))
         IN  IF nd.exc # "none" THEN nd ELSE PyRound(args[1], nd.val.q.n)

\* The names of _OPS, as text
Chars_add == <<"a", "d", "d">>
Chars_subtract == <<"s", "u", "b", "t", "r", "a", "c", "t">>
Chars_multiply == <<"m", "u", "l", "t", "i", "p", "l", "y">>
Chars_divide == <<"d", "i", "v", "i", "d", "e">>
Chars_exp == <<"e", "x", "p">>
Chars_greater == <<"g", "r", "e", "a", "t", "e", "r">>
Chars_less == <<"l", "e", "s", "s">>
Chars_eq == <<"e", "q">>
Chars_min == <<"m", "i", "n">>
Chars_max == <<"m", "a", "x">>
Chars_abs == <<"a", "b", "s">>
Chars_round == <<"r", "o", "u", "n", "d">>

OpNames ==
    {Chars_add, Chars_subtract, Chars_multiply, Chars_divide, Chars_exp,
     Chars_greater, Chars_less, Chars_eq, Chars_min, Chars_max, Chars_abs,
     Chars_round}

\* _OPS[op_name](*args)
ApplyOp(op_name, args) ==
    CASE op_name = Chars_add -> OpAdd(args)
      [] op_name = Chars_subtract -> OpSubtract(args)
      [] op_name = Chars_multiply -> OpMultiply(args)
      [] op_name = Chars_divide -> OpDivide(args)
      [] op_name = Chars_exp -> OpExp(args)
      [] op_name = Chars_greater -> OpGreater(args)
      [] op_name = Chars_less -> OpLess(args)
      [] op_name = Chars_eq -> OpEq(args)
      [] op_name = Chars_min -> OpMin(args)
      [] op_name = Chars_max -> OpMax(args)
      [] op_name = Chars_abs -> OpAbs(args)
      [] op_name = Chars_round -> OpRound(args)

-----------------------------------------------------------------------------
(* The step grammar and the argument resolution *)

\* Length of the longest prefix of s made of \w characters.
RECURSIVE WordPrefixLen(_)
WordPrefixLen(s) ==
    IF s # <<>> /\ Head(s) \in WordChars THEN 1 + WordPrefixLen(Tail(s)) ELSE 0

\* _STEP_RE.match(step) for ^(\w+)\((.+)\)$ : [ok, op_name (group 1),
\* args_str (group 2)].  "(" is no \w character, so group 1 is the whole
\* leading run of \w characters and "(" must follow it at once; .+ is greedy,
\* so group 2 runs to the last character, which must be ")".
StepMatch(step) ==
    LET w == WordPrefixLen(step)
        n == Len(step)
    IN  IF w >= 1 /\ n >= w + 3 /\ step[w + 1] = "(" /\ step[n] = ")"
        THEN [ok |-> TRUE, op_name |-> SubSeq(step, 1, w),
              args_str |-> SubSeq(step, w + 2, n - 1)]
        ELSE [ok |-> FALSE, op_name |-> <<>>, args_str |-> <<>>]

\* The loop of _split_args over the characters left, with its locals
\* args, depth and current.
RECURSIVE SplitLoop(_, _, _, _)
SplitLoop(rest, args, depth, current) ==
    IF rest = <<>>
    THEN (IF Strip(current) # <<>> THEN Append(args, Strip(current)) ELSE args)
    ELSE LET ch == Head(rest)
         IN  IF ch = "(" THEN SplitLoop(Tail(rest), args, depth + 1, Append(current, ch))
             ELSE IF ch = ")"
                  THEN SplitLoop(Tail(rest), args, depth - 1, Append(current, ch))
             ELSE IF ch = "," /\ depth = 0
                  THEN SplitLoop(Tail(rest), Append(args, Strip(current)), depth, <<>>)
             ELSE SplitLoop(Tail(rest), args, depth, Append(current, ch))

\* _split_args(args_str)
SplitArgs(args_str) == SplitLoop(args_str, <<>>, 0, <<>>)

Chars_true == <<"t", "r", "u", "e">>
Chars_false == <<"f", "a", "l", "s", "e">>

\* The index check of _resolve_arg: idx < 0 or idx >= len(results) is invalid.
ValidIndex(idx, res) == ~(idx < 0 \/ idx >= Len(res))

\* _resolve_arg(arg, results): Ok(value), or Raise("ValueError") from
\* int(arg[1:]), or Raise("IndexError").
ResolveArg(arg, res) ==
    IF StartsWith(arg, <<"#">>)
    THEN LET idx == IntParse(Tail(arg))
         IN  IF ~idx.ok THEN Raise("ValueError")
             ELSE IF ~ValidIndex(idx.n, res) THEN Raise("IndexError")
             ELSE Ok(res[idx.n + 1])
    ELSE IF Lower(arg) = Chars_true THEN Ok(BoolV(TRUE))
    ELSE IF Lower(arg) = Chars_false THEN Ok(BoolV(FALSE))
    ELSE LET cleaned == RemoveChar(arg, ",")
         IN  IF \E k \in 1..Len(cleaned) : cleaned[k] = "."
             THEN (IF FloatParse(cleaned).ok THEN Ok(FloatV(FloatParse(cleaned).q))
                   ELSE Ok(StrV(arg)))
             ELSE (IF IntParse(cleaned).ok THEN Ok(IntV(IntParse(cleaned).n))
                   ELSE Ok(StrV(arg)))

\* [_resolve_arg(a.strip(), results) for a in _split_args(args_str)]:
\* Ok with the list of values (in val.s is unused: the list is in vals), or
\* the first exception raised, left to right.
RECURSIVE ResolveAll(_, _, _)
ResolveAll(toks, res, acc) ==
    IF toks = <<>> THEN [exc |-> "none", vals |-> acc]
    ELSE LET r == ResolveArg(Strip(Head(toks)), res)
         IN  IF r.exc # "none" THEN [exc |-> r.exc, vals |-> <<>>]
             ELSE ResolveAll(Tail(toks), res, Append(acc, r.val))

-----------------------------------------------------------------------------
(* execute_program *)

NoOutcome == [kind |-> "none", value |-> NoneV, msg |-> "", step |-> -1, text |-> <<>>]
Returned(v) == [kind |-> "return", value |-> v, msg |-> "", step |-> -1, text |-> <<>>]
\* raise DSLError(msg): msg names what failed, the step index and the step text.
DSLError(m, k, step) ==
    [kind |-> "DSLError", value |-> NoneV, msg |-> m, step |-> k, text |-> step]
\* An exception of another type leaving execute_program.
Escaped(e) == [kind |-> e, value |-> NoneV, msg |-> "", step |-> -1, text |-> <<>>]

\* The handler without IndexError.
ArgErrorsCaught_NoIndexError == {"ValueError"}

\* except (ValueError, IndexError) around the argument resolution
ArgErrorsCaught == {"ValueError", "IndexError"}
\* except (TypeError, ZeroDivisionError, OverflowError) around the operator call
OpErrorsCaught == {"TypeError", "ZeroDivisionError", "OverflowError"}

\* The step text left as it is.
StripStep_Kept(raw) == raw

\* step = step.strip()
StripStep(raw) == Strip(raw)

\* results.append(result) is reached with the value the operator returned;
\* an exception of the operator call is a DSLError when the handler names it.
CallStep(step, k, applied) ==
    IF applied.exc \in OpErrorsCaught
    THEN [outcome |-> DSLError("execution error", k, step), result |-> NoneV]
    ELSE IF applied.exc # "none"
    THEN [outcome |-> Escaped(applied.exc), result |-> NoneV]
    ELSE [outcome |-> NoOutcome, result |-> applied.val]

\* The argument resolution of a step and what follows it.
ResolveStep(step, k, op_name, resolved) ==
    IF resolved.exc \in ArgErrorsCaught
    THEN [outcome |-> DSLError("argument error", k, step), result |-> NoneV]
    ELSE IF resolved.exc # "none"
    THEN [outcome |-> Escaped(resolved.exc), result |-> NoneV]
    ELSE CallStep(step, k, ApplyOp(op_name, resolved.vals))

\* The arguments resolved before the operator is looked up.
MatchStep_ResolveFirst(step, k, res, m) ==
    IF ~m.ok
    THEN [outcome |-> DSLError("cannot parse", k, step), result |-> NoneV]
    ELSE IF ResolveAll(SplitArgs(m.args_str), res, <<>>).exc \in ArgErrorsCaught
    THEN [outcome |-> DSLError("argument error", k, step), result |-> NoneV]
    ELSE IF m.op_name \notin OpNames
    THEN [outcome |-> DSLError("unknown operation", k, step), result |-> NoneV]
    ELSE ResolveStep(step, k, m.op_name, ResolveAll(SplitArgs(m.args_str), res, <<>>))

\* The grammar match and the operator lookup of a step and what follows them.
MatchStep(step, k, res, m) ==
    IF ~m.ok
    THEN [outcome |-> DSLError("cannot parse", k, step), result |-> NoneV]
    ELSE IF m.op_name \notin OpNames
    THEN [outcome |-> DSLError("unknown operation", k, step), result |-> NoneV]
    ELSE ResolveStep(step, k, m.op_name, ResolveAll(SplitArgs(m.args_str), res, <<>>))

\* One pass of the loop body for step k (0-based) with the results so far:
\* [outcome, result].  outcome.kind is "none" when the step succeeded and
\* result is then the value to append.
RunStep(raw, k, res) == MatchStep(StripStep(raw), k, res, StepMatch(StripStep(raw)))

\* if not program: raise DSLError("Empty program"); results = []
CheckEmpty ==
    /\ pc = "start"
    /\ IF program = <<>>
       THEN /\ pc' = "raised"
            /\ outcome' = DSLError("Empty program", -1, <<>>)
            /\ UNCHANGED results
       ELSE /\ pc' = "loop"
            /\ results' = <<>>
            /\ UNCHANGED outcome
    /\ UNCHANGED <<program, i>>
    /\ UNCHANGED <<metricVars, evalVars, pipeVars>>

\* The loop body putting each result at the front of the list.
Step_Prepend ==
    /\ pc = "loop"
    /\ i < Len(program)
    /\ LET r == RunStep(program[i + 1], i, results)
       IN  IF r.outcome.kind = "none"
           THEN /\ results' = <<r.result>> \o results
                /\ i' = i + 1
                /\ UNCHANGED <<pc, outcome>>
           ELSE /\ pc' = "raised"
                /\ outcome' = r.outcome
                /\ UNCHANGED <<results, i>>
    /\ UNCHANGED program
    /\ UNCHANGED <<metricVars, evalVars, pipeVars>>

\* One iteration of for i, step in enumerate(program)
Step ==
    /\ pc = "loop"
    /\ i < Len(program)
    /\ LET r == RunStep(program[i + 1], i, results)
       IN  IF r.outcome.kind = "none"
           THEN /\ results' = Append(results, r.result)
                /\ i' = i + 1
                /\ UNCHANGED <<pc, outcome>>
           ELSE /\ pc' = "raised"
                /\ outcome' = r.outcome
                /\ UNCHANGED <<results, i>>
    /\ UNCHANGED program
    /\ UNCHANGED <<metricVars, evalVars, pipeVars>>

\* last = results[-1]; return last
Return ==
    /\ pc = "loop"
    /\ i = Len(program)
    /\ pc' = "done"
    /\ outcome' = Returned(results[Len(results)])
    /\ UNCHANGED <<program, i, results>>
    /\ UNCHANGED <<metricVars, evalVars, pipeVars>>

\* The loop of execute_program from step k on with the results so far, as
\* a function of the program: the outcome of the call.
RECURSIVE ExecLoop(_, _, _)
ExecLoop(prog, k, res) ==
    IF k = Len(prog) THEN Returned(res[Len(res)])
    ELSE LET r == RunStep(prog[k + 1], k, res)
         IN  IF r.outcome.kind = "none" THEN ExecLoop(prog, k + 1, Append(res, r.result))
             ELSE r.outcome

\* execute_program(prog): the outcome of the call
ExecuteProgram(prog) ==
    IF prog = <<>> THEN DSLError("Empty program", -1, <<>>) ELSE ExecLoop(prog, 0, <<>>)

-----------------------------------------------------------------------------
(* The programs the interpreter is called with *)

\* Argument tokens, as text
T_0 == <<"0">>
T_1 == <<"1">>
T_2 == <<"2">>
T_3 == <<"3">>
T_m3 == <<"-", "3">>
T_1p5 == <<"1", ".", "5">>
T_2p5 == <<"2", ".", "5">>
T_abc == <<"a", "b", "c">>
T_TRUE == <<"T", "R", "U", "E">>
T_ref0 == <<"#", "0">>
T_ref1 == <<"#", "1">>
T_ref2 == <<"#", "2">>
T_refm1 == <<"#", "-", "1">>
T_refx == <<"#", "x">>
T_ref1p0 == <<"#", "1", ".", "0">>
T_1c000 == <<"1", ",", "0", "0", "0">>

RECURSIVE Join(_, _)
Join(toks, sep) ==
    IF toks = <<>> THEN <<>>
    ELSE IF Len(toks) = 1 THEN Head(toks)
    ELSE Head(toks) \o sep \o Join(Tail(toks), sep)

\* The text op(arg, arg, ...) as the generation stage writes it.
Call(op, toks) == op \o <<"(">> \o Join(toks, <<",", " ">>) \o <<")">>

ArithNames == {Chars_add, Chars_subtract, Chars_multiply, Chars_divide, Chars_exp}

\* Steps with back-references: valid ones, a step referring to itself or to a
\* later step, a negative index and indices that are no integers.
RefSteps ==
    {Call(Chars_add, <<T_ref0, T_1>>), Call(Chars_add, <<T_ref1, T_ref0>>),
     Call(Chars_multiply, <<T_ref0, T_ref0>>), Call(Chars_subtract, <<T_2, T_ref2>>),
     Call(Chars_add, <<T_refm1, T_1>>), Call(Chars_add, <<T_1, T_refx>>),
     Call(Chars_max, <<T_ref1p0>>), Call(Chars_max, <<T_ref0>>),
     Call(Chars_max, <<T_ref1>>)}

\* divide with a positive, a negative and a zero dividend and an earlier result
DivideSteps ==
    {Call(Chars_divide, <<a, b>>) : a \in {T_1, T_m3, T_0, T_ref0}, b \in {T_0, T_2}}

\* Steps of the other operators
PlainSteps ==
    {Call(Chars_add, <<T_1, T_2>>), <<" ">> \o Call(Chars_subtract, <<T_1, T_1p5>>) \o <<" ">>,
     Call(Chars_exp, <<T_ref0, T_2>>), Call(Chars_exp, <<T_2, <<"-", "1">>>>),
     Call(Chars_greater, <<T_ref0, T_1>>), Call(Chars_less, <<T_1, T_ref0>>),
     Call(Chars_eq, <<T_ref0, T_3>>),
     Call(Chars_min, <<T_ref0, T_1p5, T_2>>), Call(Chars_max, <<T_1, T_ref0>>),
     Call(Chars_abs, <<T_m3>>), Call(Chars_round, <<T_2p5>>),
     Call(Chars_round, <<T_ref0, T_1>>)}

\* Steps that fail: an unknown operator (with good arguments and with a bad
\* back-reference), texts outside the grammar, a wrong
\* number of arguments, operators that raise.
FailingSteps ==
    {Call(<<"f", "o", "o", "b", "a", "r">>, <<T_1, T_2>>),
     Call(<<"f", "o", "o", "b", "a", "r">>, <<T_refx, T_1>>),
     <<"n", "o", "t", " ", "a", " ", "s", "t", "e", "p">>,
     <<"a", "d", "d", "(", "1", ",", " ", "2">>,
     Call(Chars_add, <<T_1>>),
     Call(Chars_exp, <<T_0, <<"-", "1">>>>),
     Call(Chars_round, <<T_1p5, T_abc>>),
     Call(Chars_min, <<<<>>>>) ,
     Call(Chars_abs, <<T_abc>>)}

\* Arithmetic on operands that are no numbers: an opaque string, a boolean
\* literal (a boolean step result comes from greater, less or eq above).
NonNumericSteps ==
    {Call(op, <<a, T_2>>) : op \in ArithNames, a \in {T_abc, T_TRUE}}
    \cup {Call(Chars_add, <<T_abc, T_abc>>), Call(Chars_divide, <<T_abc, T_0>>)}

\* A comma-grouped number as an argument
CommaSteps ==
    {Call(Chars_add, <<T_1c000, T_2>>), Call(Chars_min, <<T_1c000, T_2>>)}

StepTexts ==
    RefSteps \cup DivideSteps \cup PlainSteps \cup FailingSteps
    \cup NonNumericSteps \cup CommaSteps

ProgramsOver(S) == UNION {[1..n -> S] : n \in 0..MaxSteps}

\* No call of execute_program is under way.
DslIdle ==
    /\ program = <<>>
    /\ i = 0
    /\ results = <<>>
    /\ pc = "idle"
    /\ outcome = NoOutcome

\* The two matchers have not been compared.
NotCompared == [lib_equal |-> FALSE, own_equal |-> FALSE, lib_match |-> FALSE, own_match |-> FALSE]

\* No call of the metrics is under way.
MetricsIdle ==
    /\ answer = <<>>
    /\ normalized = <<>>
    /\ renormalized = <<>>
    /\ compared = NotCompared
    /\ predicted = <<>>
    /\ gold = <<>>
    /\ rel_tolerance = QInt(0)
    /\ pred_num = NoNumber
    /\ gold_num = NoNumber
    /\ verdict = FALSE
    /\ mpc = "idle"

\* An argument left at its default None, and an argument that was given.
NotGiven == [given |-> FALSE, value |-> <<>>]
Given(v) == [given |-> TRUE, value |-> v]

\* No BenchmarkResult has been returned.
NoBenchmark ==
    [accuracy |-> QInt(0), total |-> 0, correct |-> 0, by_subtask |-> <<>>, results |-> <<>>]

\* No call of evaluate is under way.
EvalIdle ==
    /\ entries = <<>>
    /\ predictions = NotGiven
    /\ model_fn = NotGiven
    /\ match_mode = "numerical"
    /\ numerical_tolerance = QInt(0)
    /\ scored = <<>>
    /\ model_calls = 0
    /\ benchmark = NoBenchmark
    /\ epc = "idle"

\* The subtasks of the dataset (config.SUBTASK_TARGETS).
Subtasks == {"numerical_reasoning", "consistency_checking", "temporal_reasoning"}

\* A rejection reason "tag:detail"; the empty string is NoReason.
Reason(tag, detail) == [tag |-> tag, detail |-> detail]
NoReason == Reason("", <<>>)

\* The batch loop of run() is not running.
RunIdle ==
    /\ candidates = <<>>
    /\ total_loaded = 0
    /\ by_subtask = [st \in Subtasks |-> <<>>]
    /\ rejected = <<>>
    /\ passed = FALSE
    /\ reason = NoReason
    /\ rpc = "idle"

\* Neither _deduplicate nor _sample_diverse is running.
SelectIdle ==
    /\ questions = <<>>
    /\ target = 0
    /\ total_questions = 0
    /\ selected = <<>>
    /\ q_k = 0
    /\ company_caches = <<>>
    /\ company_counts = <<>>
    /\ idx_per_company = <<>>
    /\ code_k = 0
    /\ added_this_round = FALSE
    /\ spc = "idle"

\* The validation stage is not running.
PipeIdle == RunIdle /\ SelectIdle

\* execute_program is called with a program of the model.
Init ==
    /\ program \in ProgramsOver(StepTexts)
    /\ i = 0
    /\ results = <<>>
    /\ pc = "start"
    /\ outcome = NoOutcome
    /\ MetricsIdle
    /\ EvalIdle
    /\ PipeIdle

Next == CheckEmpty \/ Step \/ Return

Spec == Init /\ [][Next]_vars

-----------------------------------------------------------------------------
(* What the properties below speak of *)

\* The text of step k (0-based) as the loop sees it.
StepText(k) == StripStep(program[k + 1])

\* Step k has been run: it succeeded (k < i) or it is the step that raised.
Executed(k) == k < i \/ (pc = "raised" /\ k = i /\ k < Len(program))

\* The results available to step k when it ran.
EnvOf(k) == SubSeq(results, 1, k)

\* The argument tokens of step k, when its text has the form name(...).
TokensOf(k) ==
    LET m == StepMatch(StepText(k))
        toks == SplitArgs(m.args_str)
    IN  IF m.ok THEN [j \in 1..Len(toks) |-> Strip(toks[j])] ELSE <<>>

\* tok is #N with N an integer and 0 <= N < k.
GoodRef(tok, k) ==
    /\ StartsWith(tok, <<"#">>)
    /\ Len(tok) >= 2
    /\ AllDigits(Tail(tok))
    /\ DecimalValue(Tail(tok)) < k

\* tok is a back-reference that is not one of those.
BadRef(tok, k) == StartsWith(tok, <<"#">>) /\ ~GoodRef(tok, k)

\* Step k gets as far as resolving its arguments and one of them is a bad
\* back-reference.
HasBadRef(k) ==
    /\ StepMatch(StepText(k)).ok
    /\ StepMatch(StepText(k)).op_name \in OpNames
    /\ \E j \in 1..Len(TokensOf(k)) : BadRef(TokensOf(k)[j], k)

\* No run of the model meets a value the model cannot represent.
NoUnmodelled == outcome.kind # "unmodelled"

-----------------------------------------------------------------------------
(* C1 *)

\* C1: a step that reaches argument resolution with a back-reference #N that
\* is not an integer with 0 <= N < i makes execute_program raise DSLError
\* (argument error, naming step i and its text); no step holding such a
\* reference ever produces a result, so none is resolved to a value and no
\* program holding one in an executed step returns.
C1_BadReferenceRaises ==
    /\ \A k \in 0..(Len(program) - 1) :
          (pc = "raised" /\ k = i /\ HasBadRef(k))
             => outcome = DSLError("argument error", k, StepText(k))
    /\ \A k \in 0..(i - 1) :
          \A j \in 1..Len(TokensOf(k)) : ~BadRef(TokensOf(k)[j], k)
    /\ pc = "done" =>
          \A k \in 0..(Len(program) - 1) :
              \A j \in 1..Len(TokensOf(k)) : ~BadRef(TokensOf(k)[j], k)

\* A second step that refers to itself (#1 at step 1) has raised.
C1_Witness ==
    /\ pc = "raised"
    /\ i = 1
    /\ HasBadRef(1)
    /\ \E j \in 1..Len(TokensOf(1)) : TokensOf(1)[j] = T_ref1
    /\ outcome.kind = "DSLError"

-----------------------------------------------------------------------------
(* C2 *)

\* C2: every failure of a step surfaces as DSLError carrying the 0-based
\* step index and the step text; no other exception type leaves
\* execute_program.
C2_OnlyDSLError ==
    pc = "raised" =>
        /\ outcome.kind = "DSLError"
        /\ i < Len(program) => (outcome.step = i /\ outcome.text = StepText(i))

-----------------------------------------------------------------------------
(* C3 *)

\* The values step k's arguments resolved to (k executed, all resolvable).
OperandsOf(k) == ResolveAll(TokensOf(k), EnvOf(k), <<>>)

\* Step k applies an arithmetic operator to at least one operand that is no
\* number: a str, or a bool.
ArithOnNonNumeric(k) ==
    /\ StepMatch(StepText(k)).ok
    /\ StepMatch(StepText(k)).op_name \in ArithNames
    /\ OperandsOf(k).exc = "none"
    /\ \E j \in 1..Len(OperandsOf(k).vals) : OperandsOf(k).vals[j].t \in {"str", "bool"}

\* C3: an arithmetic operator (add, subtract, multiply, divide, exp) given an
\* operand that resolves to a string or a boolean never produces a result:
\* the step raises DSLError.
C3_ArithmeticNumericOnly ==
    /\ \A k \in 0..(i - 1) : ~ArithOnNonNumeric(k)
    /\ \A k \in 0..(Len(program) - 1) :
          (pc = "raised" /\ k = i /\ ArithOnNonNumeric(k)) => outcome.kind = "DSLError"

-----------------------------------------------------------------------------
(* C4 *)

\* Step k is divide(a, b) with both operands resolved to numbers.
DivideOfNumbers(k) ==
    /\ StepMatch(StepText(k)).ok
    /\ StepMatch(StepText(k)).op_name = Chars_divide
    /\ OperandsOf(k).exc = "none"
    /\ Len(OperandsOf(k).vals) = 2
    /\ IsNum(OperandsOf(k).vals[1])
    /\ IsNum(OperandsOf(k).vals[2])

\* r = a / b for finite rationals a, b with b # 0, stated by multiplication.
IsQuotient(r, a, b) == IsFinite(r) /\ r.n * b.n * a.d = a.n * r.d * b.d

\* C4: divide(a, 0) gives +infinity for every numeric dividend a (positive,
\* negative or zero) and does not raise; divide(a, b) with b # 0 gives a/b.
C4_DivideByZeroIsInfinity ==
    \A k \in 0..(Len(program) - 1) :
        (Executed(k) /\ DivideOfNumbers(k)) =>
            LET a == OperandsOf(k).vals[1].q
                b == OperandsOf(k).vals[2].q
            IN  /\ k < i
                /\ results[k + 1].t = "float"
                /\ (b.d = 1 /\ b.n = 0) => results[k + 1].q = QInf
                /\ (IsFinite(a) /\ IsFinite(b) /\ b.n # 0)
                      => IsQuotient(results[k + 1].q, a, b)

\* A negative dividend was divided by zero and the step produced +infinity.
C4_Witness ==
    \E k \in 0..(i - 1) :
        /\ DivideOfNumbers(k)
        /\ OperandsOf(k).vals[1].q.n < 0
        /\ OperandsOf(k).vals[2].q = QInt(0)
        /\ results[k + 1] = FloatV(QInf)

-----------------------------------------------------------------------------
(* C5 *)

\* The index N of a back-reference token #N.
RefIndex(tok) == DecimalValue(Tail(tok))

\* The list of results at a state: as long as the number of steps that
\* succeeded, every valid reference of such a step resolved to the entry of
\* the step it names, and the value returned is the last entry.
C5_State ==
    /\ pc = "start" => results = <<>>
    /\ pc # "start" => Len(results) = i
    /\ \A k \in 0..(i - 1) :
          \A j \in 1..Len(TokensOf(k)) :
              GoodRef(TokensOf(k)[j], k) =>
                  ResolveArg(TokensOf(k)[j], EnvOf(k))
                      = Ok(results[RefIndex(TokensOf(k)[j]) + 1])
    /\ \A k \in 0..(i - 1) :
          (StepMatch(StepText(k)).op_name = Chars_max
             /\ Len(TokensOf(k)) = 1 /\ GoodRef(TokensOf(k)[1], k))
              => results[k + 1] = results[RefIndex(TokensOf(k)[1]) + 1]
    /\ pc = "done" =>
          /\ i = Len(program)
          /\ outcome = Returned(results[Len(program)])

\* A step of the interpreter leaves the list alone or appends one entry to
\* it, in a pass of the loop that moves on to the next step.
C5_Grows ==
    \/ results' = results
    \/ /\ pc = "loop"
       /\ i' = i + 1
       /\ Len(results') = Len(results) + 1
       /\ SubSeq(results', 1, Len(results)) = results

-----------------------------------------------------------------------------
(* C6 *)

\* C6: a comma-grouped number is a literal: add(1,000, 2) evaluates to 1002.
C6_CommaGroupedLiteral ==
    \A k \in 0..(Len(program) - 1) :
        (Executed(k) /\ StepText(k) = Call(Chars_add, <<T_1c000, T_2>>)) =>
            /\ k < i
            /\ results[k + 1] = IntV(1002)

-----------------------------------------------------------------------------
(* Programs written with spaces around their tokens *)

\* Most spaces put at one place of a step.
MaxPad == 1

\* The places of a step where spaces may stand: before the operator name,
\* between the name and "(", after "(", before and after each comma, before
\* ")" and after it.
PadPlaces == {"lead", "gap", "open", "preComma", "postComma", "close", "trail"}

Paddings == [PadPlaces -> 0..MaxPad]

RECURSIVE Spaces(_)
Spaces(k) == IF k <= 0 THEN <<>> ELSE <<" ">> \o Spaces(k - 1)

\* op(arg, ...) written with pad[place] spaces at each place.
SpacedCall(op, toks, pad) ==
    Spaces(pad["lead"]) \o op \o Spaces(pad["gap"]) \o <<"(">> \o Spaces(pad["open"])
    \o Join(toks, Spaces(pad["preComma"]) \o <<",">> \o Spaces(pad["postComma"]))
    \o Spaces(pad["close"]) \o <<")">> \o Spaces(pad["trail"])

\* The steps written with spaces: [op, toks].
SpacedBases ==
    {[op |-> Chars_add, toks |-> <<T_1, T_2>>],
     [op |-> Chars_divide, toks |-> <<T_ref0, T_0>>],
     [op |-> Chars_max, toks |-> <<T_ref0, T_1p5, T_TRUE>>],
     [op |-> Chars_abs, toks |-> <<T_m3>>]}

SpacedPrograms ==
    {[k \in 1..Len(bases) |-> SpacedCall(bases[k].op, bases[k].toks, pad)] :
        bases \in ProgramsOver(SpacedBases), pad \in Paddings}

\* execute_program is called with a program written with spaces.
InitSpaced ==
    /\ program \in SpacedPrograms
    /\ i = 0
    /\ results = <<>>
    /\ pc = "start"
    /\ outcome = NoOutcome
    /\ MetricsIdle
    /\ EvalIdle
    /\ PipeIdle

SpecSpaced == InitSpaced /\ [][Next]_vars

\* The program with every space taken out (its tokens hold none).
Unspaced(prog) == [k \in 1..Len(prog) |-> RemoveChar(prog[k], " ")]

\* Spaces stand between the operator name and "(" of the step text.
HasNameGap(text) ==
    LET step == Strip(text)
        w == WordPrefixLen(step)
    IN  w >= 1 /\ w < Len(step) /\ step[w + 1] = " "

\* Two calls end alike: both return the same value, or both raise DSLError
\* naming the same failure of the same step.
SameOutcome(a, b) ==
    /\ a.kind = b.kind
    /\ a.value = b.value
    /\ a.msg = b.msg
    /\ a.step = b.step

Finished == pc \in {"done", "raised"}

-----------------------------------------------------------------------------
(* C7 *)

\* C7 as stated: spaces around the operator name, the parentheses, the commas
\* and the arguments change neither whether execute_program succeeds nor what
\* it returns.
C7_WhitespaceInsignificant ==
    Finished => SameOutcome(outcome, ExecuteProgram(Unspaced(program)))

\* C7 as amended: spaces before the operator name, after "(", around commas
\* and arguments, before ")" and after it change neither whether
\* execute_program succeeds nor what it returns; spaces between the operator
\* name and "(" make the step fail the grammar (DSLError, cannot parse).
C7_WhitespaceExceptNameGap ==
    /\ (Finished /\ \A k \in 1..Len(program) : ~HasNameGap(program[k]))
          => SameOutcome(outcome, ExecuteProgram(Unspaced(program)))
    /\ \A k \in 0..(Len(program) - 1) :
          (Executed(k) /\ HasNameGap(program[k + 1]))
              => /\ pc = "raised"
                 /\ k = i
                 /\ outcome = DSLError("cannot parse", k, StepText(k))

\* A program with spaces at every place but the name gap has returned.
C7_Witness ==
    /\ pc = "done"
    /\ Len(program) = 2
    /\ \A k \in 1..Len(program) :
          /\ ~HasNameGap(program[k])
          /\ Len(program[k]) >= Len(Unspaced(program)[k]) + 5
    /\ outcome.value = FloatV(QInf)

-----------------------------------------------------------------------------
(* normalize_answer *)

\* unicodedata.normalize("NFKC", .) on one character: the fullwidth forms
\* become their ASCII counterparts, the ideographic space a space; the
\* triangles, the kana and the kanji of the model have no decomposition.
NfkcChar(c) ==
    CASE c = "FW_1" -> "1" [] c = "FW_A" -> "A" [] c = "FW_comma" -> ","
      [] c = "FW_percent" -> "%" [] c = "FW_space" -> " " [] OTHER -> c

Nfkc(s) == [k \in 1..Len(s) |-> NfkcChar(s[k])]

\* re.sub(r"^[△▲]", "-", s)
NegativeMarker(s) ==
    IF s # <<>> /\ Head(s) \in {"TRI_W", "TRI_B"} THEN <<"-">> \o Tail(s) ELSE s

\* The comma at position k stands between two digits: (?<=\d),(?=\d)
DigitComma(s, k) ==
    /\ s[k] = ","
    /\ k > 1 /\ s[k - 1] \in Digits
    /\ k < Len(s) /\ s[k + 1] \in Digits

\* The positions of s that hold no comma between two digits, in order.
KeptPlaces(s) == SelectSeq([k \in 1..Len(s) |-> k], LAMBDA k : ~DigitComma(s, k))

\* re.sub(r"(?<=\d),(?=\d)", "", s)
RemoveDigitCommas(s) == [j \in 1..Len(KeptPlaces(s)) |-> s[KeptPlaces(s)[j]]]

\* The verb endings しました and した
Chars_shimashita == <<"H_shi", "H_ma", "H_shi", "H_ta">>
Chars_shita == <<"H_shi", "H_ta">>

\* str.removesuffix(suf)
RemoveSuffix(s, suf) ==
    IF suf # <<>> /\ EndsWith(s, suf) THEN SubSeq(s, 1, Len(s) - Len(suf)) ELSE s

\* if s.endswith("しました"): ... elif s.endswith("した"): ...
StripVerbEnding(s) ==
    IF EndsWith(s, Chars_shimashita) THEN RemoveSuffix(s, Chars_shimashita)
    ELSE IF EndsWith(s, Chars_shita) THEN RemoveSuffix(s, Chars_shita)
    ELSE s

\* normalize_answer(answer)
NormalizeAnswer(text) ==
    IF text = <<>> THEN <<>>
    ELSE Strip(Lower(StripVerbEnding(RemoveDigitCommas(NegativeMarker(Nfkc(Strip(text)))))))

-----------------------------------------------------------------------------
(* extract_number *)

\* The suffixes with the bare yen tried first.
UnitSuffixes_YenFirst ==
    << <<"J_yen">>, <<"J_hyaku", "J_man", "J_yen">>, <<"J_sen", "J_yen">>,
       <<"J_oku", "J_yen">>, <<"J_cho", "J_yen">>, <<"K_do", "K_ru">>,
       <<"K_po", "K_i", "K_n", "K_to">>, <<"p", "t">>, <<"b", "p", "s">> >>

\* _UNIT_SUFFIXES, in the order of the tuple
UnitSuffixes ==
    << <<"J_hyaku", "J_man", "J_yen">>, <<"J_sen", "J_yen">>, <<"J_oku", "J_yen">>,
       <<"J_cho", "J_yen">>, <<"J_yen">>, <<"K_do", "K_ru">>,
       <<"K_po", "K_i", "K_n", "K_to">>, <<"p", "t">>, <<"b", "p", "s">> >>

\* _KANJI_MULTIPLIERS, in the order of the dict; the multiplier is 10^exp.
KanjiMultipliers ==
    << [kanji |-> <<"J_sen">>, exp |-> 3],
       [kanji |-> <<"J_hyaku", "J_man">>, exp |-> 6],
       [kanji |-> <<"J_oku">>, exp |-> 8],
       [kanji |-> <<"J_cho">>, exp |-> 12] >>

\* for suffix in _UNIT_SUFFIXES: s = s.removesuffix(suffix)
RECURSIVE StripSuffixes(_, _)
StripSuffixes(s, sufs) ==
    IF sufs = <<>> THEN s
    ELSE StripSuffixes(RemoveSuffix(s, Head(sufs)), Tail(sufs))

\* sub in s
Contains(s, sub) ==
    \E k \in 1..(Len(s) - Len(sub) + 1) : SubSeq(s, k, k + Len(sub) - 1) = sub

\* s.replace(sub, "") for a non-empty sub
RECURSIVE ReplaceAll(_, _)
ReplaceAll(s, sub) ==
    IF s = <<>> THEN <<>>
    ELSE IF StartsWith(s, sub) THEN ReplaceAll(SubSeq(s, Len(sub) + 1, Len(s)), sub)
    ELSE <<Head(s)>> \o ReplaceAll(Tail(s), sub)

\* re.sub(r"[^\d.\-+]", "", s)
KeepNumeric(s) == SelectSeq(s, LAMBDA c : c \in Digits \cup {".", "-", "+"})

\* q * 10^k, one factor of ten at a time
RECURSIVE QScale10(_, _)
QScale10(q, k) == IF k <= 0 THEN q ELSE QScale10(QMul(q, QInt(10)), k - 1)

\* try: return float(num) * 10^exp; except ValueError: return None
ScaledFloat(parsed, exp) ==
    IF parsed.ok THEN SomeNumber(QScale10(parsed.q, exp)) ELSE NoNumber

\* The loop over _KANJI_MULTIPLIERS from the entry at the head of table on,
\* and the plain parse after it when s holds none of the kanji.
RECURSIVE ParseScaled(_, _)
ParseScaled(s, table) ==
    IF table = <<>>
    THEN ScaledFloat(FloatParse(KeepNumeric(RemoveSuffix(s, <<"%">>))), 0)
    ELSE IF Contains(s, Head(table).kanji)
    THEN ScaledFloat(FloatParse(KeepNumeric(Strip(ReplaceAll(s, Head(table).kanji)))),
                     Head(table).exp)
    ELSE ParseScaled(s, Tail(table))

\* extract_number after s = normalize_answer(text)
ExtractNormalized(s) ==
    IF s = <<>> THEN NoNumber ELSE ParseScaled(StripSuffixes(s, UnitSuffixes), KanjiMultipliers)

\* extract_number(text)
ExtractNumber(text) == ExtractNormalized(NormalizeAnswer(text))

-----------------------------------------------------------------------------
(* exact_match and numerical_match *)

\* a <= b of two floats
QLe(a, b) == ~IsNan(a) /\ ~IsNan(b) /\ (a = b \/ QLess(a, b))

\* The comparison of two texts as they are.
ExactMatch_Raw(p, g) == p = g

\* exact_match(predicted, gold)
ExactMatch(p, g) == NormalizeAnswer(p) = NormalizeAnswer(g)

\* The difference taken relative to the predicted number.
RelDiff_OverPredicted(p, g) == QDiv(QAbs(QSub(p, g)), QAbs(p))

\* rel_diff = abs(pred_num - gold_num) / abs(gold_num), for gold_num # 0
RelDiff(p, g) == QDiv(QAbs(QSub(p, g)), QAbs(g))

\* The test of the gold number that never finds a zero.
GoldIsZero_Never(gn) == FALSE

\* if gold_num == 0
GoldIsZero(gn) == QEq(gn.q, QInt(0))

\* The division of rel_diff is reached with abs(gold_num) equal to 0: Python
\* raises ZeroDivisionError there.
MatchRaises(pn, gn) ==
    pn.some /\ gn.some /\ ~GoldIsZero(gn) /\ QEq(QAbs(gn.q), QInt(0))

\* The body of numerical_match after the two extractions; exact is what
\* exact_match(predicted, gold) gives.
MatchVerdict(pn, gn, exact, t) ==
    IF ~pn.some \/ ~gn.some THEN exact
    ELSE IF GoldIsZero(gn) THEN QEq(pn.q, QInt(0))
    ELSE QLe(RelDiff(pn.q, gn.q), t)

\* numerical_match(p, g, rel_tolerance=t)
NumericalMatch(p, g, t) ==
    MatchVerdict(ExtractNumber(p), ExtractNumber(g), ExactMatch(p, g), t)

-----------------------------------------------------------------------------
(* Calls of normalize_answer *)

\* Longest answer text normalize_answer is called with.
MaxLen == 4

\* The characters of the answers: a space, the white triangle, a digit, a
\* fullwidth digit, a comma, a capital letter and the kana of the verb endings.
AnswerChars == {" ", "TRI_W", "1", "FW_1", ",", "A", "H_shi", "H_ma", "H_ta"}

AnswerTexts == UNION {[1..n -> AnswerChars] : n \in 0..MaxLen}

\* normalize_answer is called with an answer of the model.
InitNorm ==
    /\ DslIdle
    /\ EvalIdle
    /\ PipeIdle
    /\ answer \in AnswerTexts
    /\ normalized = <<>>
    /\ renormalized = <<>>
    /\ compared = NotCompared
    /\ predicted = <<>>
    /\ gold = <<>>
    /\ rel_tolerance = QInt(0)
    /\ pred_num = NoNumber
    /\ gold_num = NoNumber
    /\ verdict = FALSE
    /\ mpc = "start"

\* normalized = normalize_answer(answer)
NormalizeOnce ==
    /\ mpc = "start"
    /\ normalized' = NormalizeAnswer(answer)
    /\ mpc' = "normalized"
    /\ UNCHANGED <<compared, answer, renormalized, predicted, gold, rel_tolerance,
                   pred_num, gold_num, verdict>>
    /\ UNCHANGED <<dslVars, evalVars, pipeVars>>

\* renormalized = normalize_answer(normalized)
NormalizeAgain ==
    /\ mpc = "normalized"
    /\ renormalized' = NormalizeAnswer(normalized)
    /\ mpc' = "renormalized"
    /\ UNCHANGED <<compared, answer, normalized, predicted, gold, rel_tolerance,
                   pred_num, gold_num, verdict>>
    /\ UNCHANGED <<dslVars, evalVars, pipeVars>>

NextNorm == NormalizeOnce \/ NormalizeAgain

SpecNorm == InitNorm /\ [][NextNorm]_vars

-----------------------------------------------------------------------------
(* Calls of numerical_match *)

\* Most digits an answer of numerical_match holds.
MaxDigits == 2

MatchDigits == {"0", "1", "9"}

\* An answer is a sign, digits and a tail: no sign or the white triangle; up
\* to MaxDigits digits; nothing, a percent sign, the kanji for thousand or
\* the verb ending した.  The numbers are whole, so the double arithmetic
\* of the code is exact on them.
MatchSigns == {<<>>, <<"TRI_W">>}
MatchBodies == UNION {[1..n -> MatchDigits] : n \in 0..MaxDigits}
MatchTails == {<<>>, <<"%">>, <<"J_sen">>, Chars_shita}

MatchTexts == {sg \o b \o tl : sg \in MatchSigns, b \in MatchBodies, tl \in MatchTails}

\* The relative tolerances 0, 1/10 and 1
Tolerances == {QInt(0), [n |-> 1, d |-> 10], QInt(1)}

\* numerical_match is called with two answers of the model.
InitMatch ==
    /\ DslIdle
    /\ EvalIdle
    /\ PipeIdle
    /\ answer = <<>>
    /\ normalized = <<>>
    /\ renormalized = <<>>
    /\ compared = NotCompared
    /\ predicted \in MatchTexts
    /\ gold \in MatchTexts
    /\ rel_tolerance \in Tolerances
    /\ pred_num = NoNumber
    /\ gold_num = NoNumber
    /\ verdict = FALSE
    /\ mpc = "start"

\* pred_num = extract_number(predicted); gold_num = extract_number(gold)
Extract ==
    /\ mpc = "start"
    /\ pred_num' = ExtractNumber(predicted)
    /\ gold_num' = ExtractNumber(gold)
    /\ mpc' = "extracted"
    /\ UNCHANGED <<compared, answer, normalized, renormalized, predicted, gold,
                   rel_tolerance, verdict>>
    /\ UNCHANGED <<dslVars, evalVars, pipeVars>>

\* The rest of numerical_match: the fallback, the zero gold, the relative
\* difference.
Decide ==
    /\ mpc = "extracted"
    /\ IF MatchRaises(pred_num, gold_num)
       THEN /\ mpc' = "raised"
            /\ UNCHANGED verdict
       ELSE /\ mpc' = "done"
            /\ verdict' = MatchVerdict(pred_num, gold_num,
                                       ExactMatch(predicted, gold), rel_tolerance)
    /\ UNCHANGED <<compared, answer, normalized, renormalized, predicted, gold,
                   rel_tolerance, pred_num, gold_num>>
    /\ UNCHANGED <<dslVars, evalVars, pipeVars>>

NextMatch == Extract \/ Decide

SpecMatch == InitMatch /\ [][NextMatch]_vars

-----------------------------------------------------------------------------
(* C8 *)

\* C8: normalize_answer is idempotent: for every answer, also one with a
\* repeated triangle, with commas between digits or ending in one or more
\* verb endings, normalize_answer(normalize_answer(s)) = normalize_answer(s).
C8_Idempotent == mpc = "renormalized" => renormalized = normalized

-----------------------------------------------------------------------------
(* C9 *)

\* numerical_match called with the two answers in the other order
Swapped == NumericalMatch(gold, predicted, rel_tolerance)

BothNumbers == pred_num.some /\ gold_num.some

\* C9 as stated: numerical_match is symmetric: for every pair of answers and
\* every tolerance, numerical_match(a, b, t) = numerical_match(b, a, t).
C9_Symmetric == mpc = "done" => verdict = Swapped

\* C9 as amended: numerical_match(a, b, t) = numerical_match(b, a, t) when
\* either answer has no number, when the two numbers have the same absolute
\* value, or when the tolerance is 0; the relative difference is taken
\* against the gold number alone, so for other pairs the two orders can
\* differ, and then the order that matches is the one whose gold number has
\* the larger absolute value.
C9_SymmetricUpToGoldScale ==
    mpc = "done" =>
        /\ (\/ ~BothNumbers
            \/ QAbs(pred_num.q) = QAbs(gold_num.q)
            \/ rel_tolerance = QInt(0)) => verdict = Swapped
        /\ (BothNumbers /\ verdict # Swapped) =>
              IF verdict THEN QLess(QAbs(pred_num.q), QAbs(gold_num.q))
              ELSE QLess(QAbs(gold_num.q), QAbs(pred_num.q))

\* Two numbers matched in one order only.
C9_Witness ==
    /\ mpc = "done"
    /\ BothNumbers
    /\ verdict
    /\ ~Swapped
    /\ QLess(QAbs(pred_num.q), QAbs(gold_num.q))

-----------------------------------------------------------------------------
(* C10 *)

\* C10: when extract_number gives no number for the prediction or for the
\* gold answer, the verdict of numerical_match is exact_match(predicted,
\* gold); an answer with a number never matches one without, and two
\* answers without a number match iff their normalized forms are equal.
C10_FallbackIsExactMatch ==
    (mpc = "done" /\ ~BothNumbers) =>
        /\ verdict = ExactMatch(predicted, gold)
        /\ (pred_num.some # gold_num.some) => ~verdict
        /\ (~pred_num.some /\ ~gold_num.some) =>
              (verdict <=> NormalizeAnswer(predicted) = NormalizeAnswer(gold))

\* Two different answers without a number matched through the fallback.
C10_Witness ==
    /\ mpc = "done"
    /\ ~pred_num.some
    /\ ~gold_num.some
    /\ predicted # gold
    /\ verdict

-----------------------------------------------------------------------------
(* C11 *)

\* C11: in numerical_match with two extracted numbers, a gold number of zero
\* gives true iff the predicted number is exactly zero, whatever the
\* tolerance, and the division of the relative difference is never reached
\* with a zero denominator (no ZeroDivisionError); for any other gold number
\* the verdict is true iff |pred - gold| / |gold| <= rel_tolerance.
C11_ZeroGoldAndRelativeDifference ==
    /\ mpc # "raised"
    /\ (mpc = "done" /\ BothNumbers) =>
          IF gold_num.q = QInt(0)
          THEN verdict <=> (pred_num.q = QInt(0))
          ELSE verdict <=> QLe(QAbs(QSub(pred_num.q, gold_num.q)),
                               QMul(rel_tolerance, QAbs(gold_num.q)))

\* A nonzero prediction against a zero gold under the tolerance 1 is no match.
C11_Witness ==
    /\ mpc = "done"
    /\ BothNumbers
    /\ gold_num.q = QInt(0)
    /\ pred_num.q # QInt(0)
    /\ rel_tolerance = QInt(1)
    /\ ~verdict

-----------------------------------------------------------------------------
(* Calls of extract_number on numbers with a scale word *)

\* Most digits after the decimal point of a scaled number.
MaxFraction == 4

ScaleDigits == {"0", "1"}

\* The whole parts and the fraction parts of the numbers (no fraction part:
\* no decimal point).
WholeParts == {<<"0">>, <<"1">>, <<"1", "0">>, <<"0", "1">>}
FractionParts == UNION {[1..n -> ScaleDigits] : n \in 0..MaxFraction}

\* The decimal numeral ip.fp
Numeral(ip, fp) == IF fp = <<>> THEN ip ELSE ip \o <<".">> \o fp

RECURSIVE LeadingZeros(_)
LeadingZeros(s) == IF s # <<>> /\ Head(s) = "0" THEN 1 + LeadingZeros(Tail(s)) ELSE 0

\* The numeral is below 10^Magnitude (it is 0 when all its digits are).
Magnitude(ip, fp) ==
    IF LeadingZeros(ip) < Len(ip) THEN Len(ip) - LeadingZeros(ip)
    ELSE -LeadingZeros(fp)

\* The scaled value is within the integers of the model (below 2^31).
Fits(ip, fp, exp) ==
    LeadingZeros(ip \o fp) = Len(ip \o fp) \/ Magnitude(ip, fp) + exp <= 9

\* No sign, or the white triangle
ScaleSigns == {<<>>, <<"TRI_W">>}

ScaleWords == {KanjiMultipliers[k] : k \in 1..Len(KanjiMultipliers)}

\* A numeral followed by a scale word alone, or by a scale word and the yen.
ScaleTexts ==
    {sg \o Numeral(ip, fp) \o w.kanji \o <<"J_yen">> :
        sg \in ScaleSigns, ip \in WholeParts, fp \in FractionParts, w \in ScaleWords}
    \cup
    UNION {{sg \o Numeral(n[1], n[2]) \o w.kanji :
               sg \in ScaleSigns,
               n \in {m \in WholeParts \X FractionParts : Fits(m[1], m[2], w.exp)}} :
           w \in ScaleWords}

\* numerical_match is called with a scaled number and an empty gold answer.
InitScale ==
    /\ DslIdle
    /\ EvalIdle
    /\ PipeIdle
    /\ answer = <<>>
    /\ normalized = <<>>
    /\ renormalized = <<>>
    /\ compared = NotCompared
    /\ predicted \in ScaleTexts
    /\ gold = <<>>
    /\ rel_tolerance = QInt(0)
    /\ pred_num = NoNumber
    /\ gold_num = NoNumber
    /\ verdict = FALSE
    /\ mpc = "start"

SpecScale == InitScale /\ [][NextMatch]_vars

\* The value of sign ip.fp times 10^exp, from the digits.
ScaledValue(sg, ip, fp, exp) ==
    LET e == IF exp > Len(fp) THEN exp - Len(fp) ELSE 0
        f == IF Len(fp) > exp THEN Len(fp) - exp ELSE 0
    IN  IF DecimalValue(ip \o fp) = 0 THEN QInt(0)
        ELSE Norm((IF sg = <<>> THEN 1 ELSE -1) * DecimalValue(ip \o fp) * Pow10(e),
                  Pow10(f))

-----------------------------------------------------------------------------
(* C12 *)

\* C12: for every decimal number n, with or without the triangle before it,
\* and every scale word k of 千, 百万, 億, 兆: extract_number of n k 円 is the
\* signed value of n, not multiplied, and extract_number of n k is the signed
\* value of n times the scale of k (10^3, 10^6, 10^8, 10^12).
C12_ScaleWords ==
    mpc # "start" =>
        \A sg \in ScaleSigns, ip \in WholeParts, fp \in FractionParts, w \in ScaleWords :
            /\ predicted = sg \o Numeral(ip, fp) \o w.kanji \o <<"J_yen">>
                  => pred_num = SomeNumber(ScaledValue(sg, ip, fp, 0))
            /\ (predicted = sg \o Numeral(ip, fp) \o w.kanji /\ Fits(ip, fp, w.exp))
                  => pred_num = SomeNumber(ScaledValue(sg, ip, fp, w.exp))

\* The triangle, 0.0001 and 兆 give minus 10^8.
C12_Witness ==
    /\ mpc = "extracted"
    /\ predicted = <<"TRI_W", "0", ".", "0", "0", "0", "1", "J_cho">>
    /\ pred_num = SomeNumber(QInt(-100000000))

-----------------------------------------------------------------------------
(* The validator's own answer matching (s4_validate.py) *)

\* s.replace(a, b) for one-character a and b
ReplaceChar(s, a, b) == [k \in 1..Len(s) |-> IF s[k] = a THEN b ELSE s[k]]

\* _normalize(s): strip, NFKC, every triangle to a minus, no commas, lower case
Normalize(s) ==
    Lower(RemoveChar(ReplaceChar(ReplaceChar(Nfkc(Strip(s)), "TRI_W", "-"),
                                 "TRI_B", "-"), ","))

\* The suffixes _extract_number removes, in its order.
ValidatorSuffixes ==
    << <<"%">>, <<"J_yen">>, <<"J_hyaku", "J_man", "J_yen">>, <<"J_sen", "J_yen">>,
       <<"J_oku", "J_yen">>, <<"J_cho", "J_yen">> >>

\* for suffix in [...]: s = s.replace(suffix, "")
RECURSIVE RemoveEach(_, _)
RemoveEach(s, sufs) ==
    IF sufs = <<>> THEN s ELSE RemoveEach(ReplaceAll(s, Head(sufs)), Tail(sufs))

\* The number of digits s starts with.
RECURSIVE DigitsAhead(_)
DigitsAhead(s) ==
    IF s # <<>> /\ Head(s) \in Digits THEN 1 + DigitsAhead(Tail(s)) ELSE 0

\* Length of the match of \.?\d* at the start of s (both parts are greedy).
FractionAhead(s) ==
    IF s # <<>> /\ Head(s) = "." THEN 1 + DigitsAhead(Tail(s)) ELSE 0

\* Length of the match of \d+\.?\d* at the start of s, 0 if there is none.
UnsignedAhead(s) ==
    IF DigitsAhead(s) = 0 THEN 0
    ELSE DigitsAhead(s) + FractionAhead(SubSeq(s, DigitsAhead(s) + 1, Len(s)))

\* Length of the match of -?\d+\.?\d* at the start of s, 0 if there is none.
NumberAhead(s) ==
    IF s # <<>> /\ Head(s) = "-" /\ UnsignedAhead(Tail(s)) > 0
    THEN 1 + UnsignedAhead(Tail(s))
    ELSE UnsignedAhead(s)

\* re.search(r"-?\d+\.?\d*", s): the leftmost match, <<>> if there is none.
RECURSIVE SearchNumber(_)
SearchNumber(s) ==
    IF s = <<>> THEN <<>>
    ELSE IF NumberAhead(s) > 0 THEN SubSeq(s, 1, NumberAhead(s))
    ELSE SearchNumber(Tail(s))

\* float(match.group()) if match else None
FloatOfMatch(m) == IF m = <<>> THEN NoNumber ELSE SomeNumber(FloatParse(m).q)

\* _extract_number(s)
ExtractFirstNumber(s) ==
    FloatOfMatch(SearchNumber(Strip(RemoveEach(Normalize(s), ValidatorSuffixes))))

\* ANSWER_TOLERANCE = 0.05
ANSWER_TOLERANCE == [n |-> 1, d |-> 20]

\* The bound 0.001 on a predicted number when the gold number is zero.
ZeroEpsilon == [n |-> 1, d |-> 1000]

\* abs(pred_num) < 0.001
NearZero(x) == QLess(QAbs(x), ZeroEpsilon)

\* _numerical_match after the two extractions
ValidatorVerdict(pn, gn, same, t) ==
    IF ~pn.some \/ ~gn.some THEN same
    ELSE IF QEq(gn.q, QInt(0)) THEN NearZero(pn.q)
    ELSE QLe(RelDiff(pn.q, gn.q), t)

\* _numerical_match(predicted, gold), tolerance left at its default
ValidatorMatch(p, g) ==
    ValidatorVerdict(ExtractFirstNumber(p), ExtractFirstNumber(g),
                     Normalize(p) = Normalize(g), ANSWER_TOLERANCE)

-----------------------------------------------------------------------------
(* str() and format() of a program result *)

DigitChar(k) == CHOOSE c \in Digits : DigitVal(c) = k

\* str(n) of an int n >= 0
RECURSIVE NatText(_)
NatText(n) ==
    IF n < 10 THEN <<DigitChar(n)>> ELSE NatText(n \div 10) \o <<DigitChar(n % 10)>>

\* str(n) of an int
IntText(n) == IF n < 0 THEN <<"-">> \o NatText(-n) ELSE NatText(n)

\* The float is a decimal fraction of at most nine places.  repr() of the
\* other floats (16 or 17 significant digits) is not modelled.
ShortDecimal(x) == IsFinite(x) /\ Pow10(9) % x.d = 0

\* The number of decimal places of a short decimal with denominator d.
RECURSIVE DecimalPlaces(_, _)
DecimalPlaces(d, k) == IF Pow10(k) % d = 0 THEN k ELSE DecimalPlaces(d, k + 1)

\* The significant digits of a short decimal that is no integer.
DecimalDigits(x) ==
    NatText(Abs(x.n) * (Pow10(DecimalPlaces(x.d, 0)) \div x.d))

\* repr() in fixed notation: digits ds, decimal point after the first decpt.
FixedText(ds, decpt) ==
    IF decpt <= 0 THEN <<"0", ".">> \o Repeat(<<"0">>, -decpt) \o ds
    ELSE SubSeq(ds, 1, decpt) \o <<".">> \o SubSeq(ds, decpt + 1, Len(ds))

\* The exponent of repr(): at least two digits, and a sign.
ExponentText(e) ==
    <<"e", IF e < 0 THEN "-" ELSE "+">>
    \o (IF Abs(e) < 10 THEN <<"0">> ELSE <<>>) \o NatText(Abs(e))

\* repr() in exponent notation
ScientificText(ds, decpt) ==
    <<Head(ds)>> \o (IF Len(ds) > 1 THEN <<".">> \o Tail(ds) ELSE <<>>)
    \o ExponentText(decpt - 1)

\* repr() of the digits of a fraction: exponent notation below 0.0001
FractionText(ds, decpt) ==
    IF decpt < -3 THEN ScientificText(ds, decpt) ELSE FixedText(ds, decpt)

\* repr(x) without its sign
UnsignedFloatText(x) ==
    IF x.d = 1 THEN NatText(Abs(x.n)) \o <<".", "0">>
    ELSE FractionText(DecimalDigits(x), Len(DecimalDigits(x)) - DecimalPlaces(x.d, 0))

\* str(x) of a float x
FloatText(x) ==
    IF IsNan(x) THEN <<"n", "a", "n">>
    ELSE IF IsInfinite(x) THEN (IF x.n < 0 THEN <<"-">> ELSE <<>>) \o <<"i", "n", "f">>
    ELSE IF ~ShortDecimal(x) THEN <<"?">>
    ELSE (IF x.n < 0 THEN <<"-">> ELSE <<>>) \o UnsignedFloatText(x)

\* str(result) of a numeric result
NumberText(v) == IF v.t = "int" THEN IntText(v.q.n) ELSE FloatText(v.q)

\* x has a last place of 5 after the first decimal place, and the float
\* nearest to it is not x itself: which way format() rounds it is not modelled.
InexactTie(x) == IsFinite(x) /\ x.d = 20

\* The tenths of a float, rounded half to even
Tenths(x) == RoundHalfEven(10 * x.n, x.d)

\* f"{x:.1f}"
OneDecimalText(x) ==
    IF InexactTie(x) THEN <<"?">>
    ELSE (IF x.n < 0 THEN <<"-">> ELSE <<>>)
         \o NatText(Abs(Tenths(x)) \div 10) \o <<".", DigitChar(Abs(Tenths(x)) % 10)>>

-----------------------------------------------------------------------------
(* validate_question *)

\* A key the dict does not hold.
Absent == [t |-> "absent", q |-> QInt(0), s |-> <<>>]

\* The program of a candidate: a list of step texts, a value that is no list,
\* or no program at all.
ListOf(steps) == [kind |-> "list", steps |-> steps]
NotAList == [kind |-> "str", steps |-> <<>>]
NoProgram == [kind |-> "absent", steps |-> <<>>]

\* The gold_evidence of a candidate: a list of references, or no such key.
Evidence(refs) == [present |-> TRUE, refs |-> refs]
NoEvidence == [present |-> FALSE, refs |-> <<>>]

\* q["qa"].  A candidate without the key "qa" is the candidate whose qa holds
\* no key: q.get("qa", {}).
QA(question, ans, prog, evidence) ==
    [question |-> question, answer |-> ans, program |-> prog, gold_evidence |-> evidence]

\* A candidate record; subtask and edinet_code are "absent" where the record
\* has no such key.
Candidate(qa, subtask, code) == [qa |-> qa, subtask |-> subtask, edinet_code |-> code]

\* What a call of validate_question does: it returns (passed, reason), or an
\* exception of type exc leaves it.
Accepted == [exc |-> "none", passed |-> TRUE, reason |-> NoReason]
Rejected(tag, detail) == [exc |-> "none", passed |-> FALSE, reason |-> Reason(tag, detail)]
Raised(e) == [exc |-> e, passed |-> FALSE, reason |-> NoReason]

\* A minimum of two steps.
MIN_PROGRAM_STEPS_Two == 1 + 1

\* MIN_PROGRAM_STEPS, the one minimum config.py holds
MIN_PROGRAM_STEPS == 1

\* The answers that stand for true and for false
JpTrue ==
    {<<"H_ha", "H_i">>, <<"J_zou", "J_shuu">>, <<"J_zou", "J_eki">>, <<"J_kai", "J_zen">>,
     <<"J_ichi", "J_chi">>, <<"J_zou", "J_ka">>, Chars_true, <<"y", "e", "s">>}
JpFalse ==
    {<<"H_i", "H_i", "H_e">>, <<"J_gen", "J_shuu">>, <<"J_gen", "J_eki">>,
     <<"J_aku", "J_bake">>, <<"J_fu", "J_ichi", "J_chi">>, <<"J_gen", "J_shou">>,
     Chars_false, <<"n", "o">>}

\* answer_bool
AnswerBool(norm_answer) ==
    IF norm_answer \in JpTrue THEN Chars_true
    ELSE IF norm_answer \in JpFalse THEN Chars_false
    ELSE norm_answer

\* "true" if result else "false"
BoolText(v) == IF v.q = QInt(1) THEN Chars_true ELSE Chars_false

\* f"program={result_str},answer={answer}"
MismatchDetail(result_str, ans) == <<"program=">> \o result_str \o <<",answer=">> \o ans

\* 5. evidence = qa.get("gold_evidence", []); an empty list is no evidence
CheckEvidence(qa) ==
    IF qa.gold_evidence.refs = <<>> THEN Rejected("no_gold_evidence", <<>>) ELSE Accepted

\* The text a numeric result is compared as: one decimal and "%" where the
\* answer holds a "%", str(result) otherwise.
ResultText(v, ans) ==
    IF Contains(ans, <<"%">>) THEN OneDecimalText(v.q) \o <<"%">> ELSE NumberText(v)

\* The infinity test that lets every number through.
InvalidResult_Never(x) == FALSE

\* math.isinf(result) or math.isnan(result)
InvalidResult(x) == IsInfinite(x) \/ IsNan(x)

\* 4. the branch of an int or float result
CheckNumber(qa, v) ==
    IF InvalidResult(v.q) THEN Rejected("invalid_result", FloatText(v.q))
    ELSE IF ~ValidatorMatch(ResultText(v, qa.answer.s), qa.answer.s)
    THEN Rejected("answer_mismatch", MismatchDetail(NumberText(v), qa.answer.s))
    ELSE CheckEvidence(qa)

\* 4. the branch of a bool result
CheckBool(qa, v) ==
    IF BoolText(v) # AnswerBool(Normalize(qa.answer.s))
    THEN Rejected("answer_mismatch", MismatchDetail(BoolText(v), qa.answer.s))
    ELSE CheckEvidence(qa)

\* 4. the branch of any other result: str(result) compared after _normalize
CheckText(qa, v) ==
    IF Normalize(v.s) # Normalize(qa.answer.s)
    THEN Rejected("answer_mismatch", MismatchDetail(v.s, qa.answer.s))
    ELSE CheckEvidence(qa)

\* 4. isinstance(result, bool) is tested before isinstance(result, (int, float))
CheckResult(qa, v) ==
    IF v.t = "bool" THEN CheckBool(qa, v)
    ELSE IF v.t \in {"int", "float"} THEN CheckNumber(qa, v)
    ELSE CheckText(qa, v)

\* 3. try: result = execute_program(program); except DSLError as e: ...
\* An exception of another type is not caught.
CheckOutcome(qa, o) ==
    IF o.kind = "DSLError" THEN Rejected("dsl_error", <<o.msg>> \o o.text)
    ELSE IF o.kind = "return" THEN CheckResult(qa, o.value)
    ELSE Raised(o.kind)

\* 2. the program is a list of at least the minimum number of steps
CheckProgram(qa) ==
    IF qa.program.kind # "list" THEN Rejected("program_not_list", <<>>)
    ELSE IF Len(qa.program.steps) < MIN_PROGRAM_STEPS
    THEN Rejected("too_few_steps", IntText(Len(qa.program.steps)))
    ELSE CheckOutcome(qa, ExecuteProgram(qa.program.steps))

\* 1. qa["question"].strip() and qa["answer"].strip(): a value that is no str
\* has no strip()
CheckTexts(qa) ==
    IF ~IsStr(qa.question) THEN Raised("AttributeError")
    ELSE IF Strip(qa.question.s) = <<>> THEN Rejected("empty_question", <<>>)
    ELSE IF ~IsStr(qa.answer) THEN Raised("AttributeError")
    ELSE IF Strip(qa.answer.s) = <<>> THEN Rejected("empty_answer", <<>>)
    ELSE CheckProgram(qa)

\* 1. for field in ("question", "answer", "program"): if field not in qa
CheckFields(qa) ==
    IF qa.question = Absent THEN Rejected("missing_field", <<"question">>)
    ELSE IF qa.answer = Absent THEN Rejected("missing_field", <<"answer">>)
    ELSE IF qa.program.kind = "absent" THEN Rejected("missing_field", <<"program">>)
    ELSE CheckTexts(qa)

\* validate_question(q): qa = q.get("qa", {}).  No other key of q is read.
ValidateQuestion(q) == CheckFields(q.qa)

-----------------------------------------------------------------------------
(* run(): the batch loop over the loaded candidates *)

\* subtask = q.get("subtask", "numerical_reasoning")
SubtaskOf(q) == IF q.subtask = "absent" THEN "numerical_reasoning" ELSE q.subtask

\* The loop body of run() after validate_question(q) gave r: the candidate
\* goes to its subtask's list or to the rejected list; an exception ends run().
Route(q, r) ==
    IF r.exc # "none"
    THEN /\ rpc' = r.exc
         /\ UNCHANGED <<passed, reason, by_subtask, rejected>>
    ELSE /\ rpc' = rpc
         /\ passed' = r.passed
         /\ reason' = r.reason
         /\ IF r.passed
            THEN /\ by_subtask' = [by_subtask EXCEPT ![SubtaskOf(q)] = Append(@, q)]
                 /\ UNCHANGED rejected
            ELSE /\ rejected' = Append(rejected, [question |-> q, reason |-> r.reason])
                 /\ UNCHANGED by_subtask

\* for q in questions: total_loaded += 1; passed, reason = validate_question(q); ...
Validate ==
    /\ rpc = "loop"
    /\ total_loaded < Len(candidates)
    /\ total_loaded' = total_loaded + 1
    /\ Route(candidates[total_loaded + 1], ValidateQuestion(candidates[total_loaded + 1]))
    /\ UNCHANGED <<candidates, selectVars>>
    /\ UNCHANGED <<dslVars, metricVars, evalVars>>

\* The loop has taken every candidate: n_passed = total_loaded - len(rejected)
EndOfBatch ==
    /\ rpc = "loop"
    /\ total_loaded = Len(candidates)
    /\ rpc' = "done"
    /\ UNCHANGED <<candidates, total_loaded, by_subtask, rejected, passed, reason, selectVars>>
    /\ UNCHANGED <<dslVars, metricVars, evalVars>>

NextRun == Validate \/ EndOfBatch

\* run() starts on the candidates cs.
RunStarts(cs) ==
    /\ DslIdle
    /\ MetricsIdle
    /\ EvalIdle
    /\ candidates = cs
    /\ total_loaded = 0
    /\ by_subtask = [st \in Subtasks |-> <<>>]
    /\ rejected = <<>>
    /\ passed = FALSE
    /\ reason = NoReason
    /\ rpc = "loop"
    /\ SelectIdle

-----------------------------------------------------------------------------
(* Candidates *)

T_4 == <<"4">>
T_20000 == <<"2", "0", "0", "0", "0">>
T_5em05 == <<"5", "e", "-", "0", "5">>
T_ae == <<"a", "e">>

\* Programs with a finite numeric result: 3, 6, 0, 0.25, 3.0 and -0.5
NumericPrograms ==
    {<<Call(Chars_add, <<T_1, T_2>>)>>,
     <<Call(Chars_add, <<T_1, T_2>>), Call(Chars_multiply, <<T_ref0, T_2>>)>>,
     <<Call(Chars_subtract, <<T_1, T_1>>)>>,
     <<Call(Chars_divide, <<T_1, T_4>>)>>,
     <<Call(Chars_multiply, <<T_2, T_1p5>>)>>,
     <<Call(Chars_subtract, <<T_1, T_1p5>>)>>}

\* The program whose result, 0.00005, str() writes with an exponent.
SmallProgram == <<Call(Chars_divide, <<T_1, T_20000>>)>>

\* Programs whose result is an infinity or nan
NonFinitePrograms ==
    {<<Call(Chars_divide, <<T_1, T_0>>)>>,
     <<Call(Chars_divide, <<T_m3, T_0>>), Call(Chars_multiply, <<T_ref0, T_m3>>)>>,
     <<Call(Chars_divide, <<T_1, T_0>>), Call(Chars_subtract, <<T_ref0, T_ref0>>)>>}

\* Programs with a bool result, one of them computed from an infinity
BoolPrograms ==
    {<<Call(Chars_greater, <<T_2, T_1>>)>>, <<Call(Chars_less, <<T_2, T_1>>)>>,
     <<Call(Chars_divide, <<T_1, T_0>>), Call(Chars_greater, <<T_ref0, T_1>>)>>}

\* A program with a str result, "aeae"
TextPrograms == {<<Call(Chars_add, <<T_ae, T_ae>>)>>}

\* Programs execute_program raises DSLError for, the empty one among them
DSLErrorPrograms ==
    {<<>>, <<Call(<<"f", "o", "o", "b", "a", "r">>, <<T_1, T_2>>)>>,
     <<Call(Chars_add, <<T_1, T_2>>), Call(Chars_add, <<T_ref1, T_1>>)>>}

\* Programs an exception of another type leaves execute_program for
EscapingPrograms ==
    {<<Call(Chars_round, <<T_1p5, T_abc>>)>>,
     <<Call(Chars_add, <<T_1, T_2>>), Call(Chars_round, <<T_ref0, T_abc>>)>>}

CandidatePrograms ==
    {ListOf(p) : p \in NumericPrograms \cup NonFinitePrograms \cup BoolPrograms
                       \cup TextPrograms \cup DSLErrorPrograms \cup EscapingPrograms}
    \cup {NotAList, NoProgram}

\* What str() makes of a program's result; <<>> where there is no result.
OwnAnswerOf(o) ==
    IF o.kind # "return" THEN <<>>
    ELSE IF o.value.t = "bool" THEN (IF o.value.q = QInt(1) THEN <<"T", "r", "u", "e">>
                                     ELSE <<"F", "a", "l", "s", "e">>)
    ELSE IF o.value.t = "str" THEN o.value.s
    ELSE NumberText(o.value)

\* The stated answer that is the value of the candidate's own program.
OwnAnswer(prog) == IF prog.kind = "list" THEN OwnAnswerOf(ExecuteProgram(prog.steps)) ELSE <<>>

\* Stated answers: numbers, numbers with a unit, the words for true and
\* false, texts, blank answers.
StatedAnswers ==
    {<<"3">>, <<"4">>, <<"3", ".", "1">>, <<"3", ".", "2">>, <<"6">>, <<"0">>,
     <<"0", ".", "2", "5">>, <<"0", ".", "2", "%">>, <<"0", ".", "3", "%">>,
     <<"3", "J_yen">>, <<"TRI_W", "0", ".", "5">>, <<"-", "0", ".", "5">>,
     <<"i", "n", "f">>, <<"n", "a", "n">>,
     Chars_true, Chars_false, <<"T", "R", "U", "E">>,
     <<"J_zou", "J_shuu">>, <<"J_gen", "J_shuu">>, <<"H_ha", "H_i">>, <<"n", "o">>,
     <<"a", "e", "a", "e">>, <<"A", "E", "A", "E">>, <<"a", "e">>,
     <<>>, <<" ">>}

AnswerValues == {StrV(a) : a \in StatedAnswers} \cup {IntV(3), Absent}

QuestionValues == {StrV(<<"Q">>), StrV(<<" ">>), IntV(1), Absent}

EvidenceValues == {Evidence(<<"e">>), Evidence(<<>>), NoEvidence}

SubtaskValues == {"numerical_reasoning", "consistency_checking", "absent"}

\* Candidates with every combination of question, answer, program, evidence
\* and subtask of the model
CrossCandidates ==
    {Candidate(QA(qu, an, pr, ev), st, "absent") :
        qu \in QuestionValues, an \in AnswerValues, pr \in CandidatePrograms,
        ev \in EvidenceValues, st \in SubtaskValues}

\* Candidates whose stated answer is the value of their own program
OwnCandidates ==
    {Candidate(QA(StrV(<<"Q">>), StrV(OwnAnswer(pr)), pr, ev), st, "absent") :
        pr \in CandidatePrograms, ev \in EvidenceValues, st \in SubtaskValues}

\* Candidates of the program with the result 0.00005
SmallCandidates ==
    {Candidate(QA(StrV(<<"Q">>), StrV(an), ListOf(SmallProgram), ev), "absent", "absent") :
        an \in {T_5em05, <<"5">>, <<"3">>, <<"0", ".", "0", "0", "0", "0", "5">>},
        ev \in EvidenceValues}

ValidatorCandidates == CrossCandidates \cup OwnCandidates \cup SmallCandidates

\* run() loads one candidate.
InitValidate == \E q \in ValidatorCandidates : RunStarts(<<q>>)

SpecValidate == InitValidate /\ [][NextRun]_vars

-----------------------------------------------------------------------------
(* C13 *)

\* C13: no exception leaves validate_question: whatever a candidate holds,
\* every failure met while checking it becomes a rejection reason, so run()
\* is never ended by an exception and its loop validates every loaded
\* candidate before it ends.
C13_NoExceptionEscapes ==
    /\ rpc \in {"loop", "done"}
    /\ rpc = "done" => total_loaded = Len(candidates)

-----------------------------------------------------------------------------
(* C14 *)

\* The candidate the loop of run() has validated last.
LastCandidate == candidates[total_loaded]

\* What executing the candidate's own program gives.
ResultOf(q) == ExecuteProgram(q.qa.program.steps)

\* The candidate has a question text that is not blank, an answer text, at
\* least one evidence reference and a program that runs to a result.
Answerable(q) ==
    /\ IsStr(q.qa.question) /\ Strip(q.qa.question.s) # <<>>
    /\ IsStr(q.qa.answer)
    /\ q.qa.gold_evidence.refs # <<>>
    /\ q.qa.program.kind = "list"
    /\ ResultOf(q).kind = "return"

\* The number a lies outside the tolerance of the number x, whichever of the
\* two the difference is taken relative to.
OutsideTolerance(x, a) ==
    QLess(QMul(ANSWER_TOLERANCE, IF QLess(QAbs(x), QAbs(a)) THEN QAbs(a) ELSE QAbs(x)),
          QAbs(QSub(x, a)))

\* The stated answer ans does not match the result v: a plain decimal number
\* outside the tolerance of a finite numeric result, or the categorical token
\* opposite to a bool result.
Unrelated(v, ans) ==
    \/ /\ v.t \in {"int", "float"}
       /\ IsFinite(v.q)
       /\ FloatParse(ans).ok
       /\ OutsideTolerance(v.q, FloatParse(ans).q)
    \/ /\ v.t = "bool"
       /\ Normalize(ans) \in (IF v.q = QInt(1) THEN JpFalse ELSE JpTrue)

\* The result is an infinity or nan, which is never accepted (C16).
Sentinel(v) == v.t \in {"int", "float"} /\ ~IsFinite(v.q)

\* C14: a candidate with a question text, evidence and a stated answer that
\* is the value its own program produces (an infinity or nan aside) is
\* accepted; with a stated answer that does not match the program's result
\* (a number outside the tolerance, the opposite categorical token) it is
\* rejected with answer_mismatch.
C14_OwnAnswerAcceptedOtherRejected ==
    total_loaded > 0 /\ Answerable(LastCandidate)
    => /\ /\ LastCandidate.qa.answer.s = OwnAnswer(LastCandidate.qa.program)
          /\ ~Sentinel(ResultOf(LastCandidate).value)
          => rpc \in {"loop", "done"} /\ passed
       /\ Unrelated(ResultOf(LastCandidate).value, LastCandidate.qa.answer.s)
          => rpc \in {"loop", "done"} /\ ~passed /\ reason.tag = "answer_mismatch"

-----------------------------------------------------------------------------
(* C15 *)

\* The candidate gets as far as the check of its program's length: the three
\* fields are there, question and answer are texts that are not blank, and
\* the program is a list.
ReachesStepCheck(q) ==
    /\ IsStr(q.qa.question) /\ Strip(q.qa.question.s) # <<>>
    /\ IsStr(q.qa.answer) /\ Strip(q.qa.answer.s) # <<>>
    /\ q.qa.program.kind = "list"

-----------------------------------------------------------------------------
(* C16 *)

\* The program of the candidate runs to a final result that is an infinity or
\* nan.
SentinelResult(q) ==
    /\ q.qa.program.kind = "list"
    /\ ResultOf(q).kind = "return"
    /\ Sentinel(ResultOf(q).value)

\* The candidate is in the list of some subtask.
InSomeBucket(q) ==
    \E st \in Subtasks : \E k \in 1..Len(by_subtask[st]) : by_subtask[st][k] = q

\* C16: a candidate whose program's final result is an infinity or nan is
\* never accepted: validate_question does not return passed for it and it
\* enters no subtask list; with a question and an answer text that let the
\* program be executed it is rejected with the reason invalid_result, naming
\* the result, whatever the stated answer is.
C16_SentinelNeverAccepted ==
    total_loaded > 0 /\ SentinelResult(LastCandidate)
    => /\ ~passed
       /\ ~InSomeBucket(LastCandidate)
       /\ ReachesStepCheck(LastCandidate)
          => /\ rpc \in {"loop", "done"}
             /\ reason.tag = "invalid_result"
             /\ reason.detail \in {<<"i", "n", "f">>, <<"-", "i", "n", "f">>, <<"n", "a", "n">>}
             /\ rejected = <<[question |-> LastCandidate, reason |-> reason]>>

\* A candidate whose program gives inf and whose stated answer is "inf", with
\* evidence, was rejected as invalid_result.
C16_Witness ==
    /\ total_loaded = 1
    /\ SentinelResult(LastCandidate)
    /\ LastCandidate.qa.answer = StrV(<<"i", "n", "f">>)
    /\ LastCandidate.qa.gold_evidence.refs # <<>>
    /\ reason = Reason("invalid_result", <<"i", "n", "f">>)
    /\ Len(rejected) = 1

-----------------------------------------------------------------------------
(* C17 *)

\* Question and answer are texts where the candidate has them.
TextFields(q) ==
    /\ q.qa.question = Absent \/ IsStr(q.qa.question)
    /\ q.qa.answer = Absent \/ IsStr(q.qa.answer)

\* First check: a required field is missing, or question or answer is blank.
FailsFieldCheck(q) ==
    \/ q.qa.question = Absent \/ q.qa.answer = Absent \/ q.qa.program.kind = "absent"
    \/ Strip(q.qa.question.s) = <<>> \/ Strip(q.qa.answer.s) = <<>>

\* The candidate q with one evidence reference.
WithEvidence(q) == [q EXCEPT !.qa.gold_evidence = Evidence(<<"e">>)]

\* C17: the checks are applied in a fixed order and the first failing one
\* gives the reason: fields and non-blank question and answer, program is a
\* list, minimum step count, program execution, answer comparison, evidence.
\* So a candidate failing the field check gets one of its reasons whatever else
\* is wrong with it; else one whose program is no list gets program_not_list;
\* else one with too few steps too_few_steps; else one whose program fails to
\* execute an interpreter-error reason; else one with the wrong answer or
\* result its reason whether or not it has evidence; and no_gold_evidence is
\* the reason only of a candidate that is accepted once it has evidence.
C17_FirstFailureWins ==
    total_loaded > 0 /\ TextFields(LastCandidate)
    => IF FailsFieldCheck(LastCandidate)
       THEN ~passed /\ reason.tag \in {"missing_field", "empty_question", "empty_answer"}
       ELSE IF LastCandidate.qa.program.kind # "list"
       THEN ~passed /\ reason.tag = "program_not_list"
       ELSE IF Len(LastCandidate.qa.program.steps) < MIN_PROGRAM_STEPS
       THEN ~passed /\ reason.tag = "too_few_steps"
       ELSE IF ResultOf(LastCandidate).kind # "return"
       THEN ~passed /\ reason.tag = "dsl_error"
       ELSE IF ValidateQuestion(WithEvidence(LastCandidate)).passed
       THEN IF LastCandidate.qa.gold_evidence.refs = <<>>
            THEN ~passed /\ reason.tag = "no_gold_evidence"
            ELSE passed /\ reason = NoReason
       ELSE /\ ~passed
            /\ reason.tag \in {"invalid_result", "answer_mismatch"}
            /\ reason = ValidateQuestion(WithEvidence(LastCandidate)).reason

-----------------------------------------------------------------------------
(* Batches of candidates *)

\* Most candidates run() loads.
MaxBatch == 2

\* The candidate with the program prog, the stated answer ans, the evidence
\* ev and the subtask st.
BatchCandidate(prog, ans, ev, st) == Candidate(QA(StrV(<<"Q">>), StrV(ans), ListOf(prog), ev), st, "absent")

\* Candidates that pass, in two subtasks and without a subtask; candidates
\* that are rejected for their answer, their evidence and their program; and
\* a candidate whose program raises an exception that is no DSLError.
BatchCandidates ==
    {BatchCandidate(<<Call(Chars_add, <<T_1, T_2>>)>>, <<"3">>, Evidence(<<"e">>), "numerical_reasoning"),
     BatchCandidate(<<Call(Chars_greater, <<T_2, T_1>>)>>, Chars_true, Evidence(<<"e">>), "consistency_checking"),
     BatchCandidate(<<Call(Chars_divide, <<T_1, T_4>>)>>, <<"0", ".", "2", "5">>, Evidence(<<"e">>), "absent"),
     BatchCandidate(<<Call(Chars_add, <<T_1, T_2>>)>>, <<"4">>, Evidence(<<"e">>), "numerical_reasoning"),
     BatchCandidate(<<Call(Chars_add, <<T_1, T_2>>)>>, <<"3">>, NoEvidence, "temporal_reasoning"),
     BatchCandidate(<<>>, <<"3">>, Evidence(<<"e">>), "consistency_checking"),
     BatchCandidate(<<Call(Chars_round, <<T_1p5, T_abc>>)>>, <<"2">>, Evidence(<<"e">>), "numerical_reasoning")}

Batches == UNION {[1..n -> BatchCandidates] : n \in 0..MaxBatch}

\* run() loads a batch of candidates.
InitRun == \E cs \in Batches : RunStarts(cs)

SpecRun == InitRun /\ [][NextRun]_vars

-----------------------------------------------------------------------------
(* C18 *)

\* The number of places of the list seq that hold x.
Count(seq, x) == Cardinality({k \in 1..Len(seq) : seq[k] = x})

\* The candidates of the rejected list.
RejectedQuestions == [k \in 1..Len(rejected) |-> rejected[k].question]

\* The number of times q was put into the list of the subtask st.
InBucket(q, st) == Count(by_subtask[st], q)

\* The number of times q was put anywhere.
Routed(q) ==
    Count(RejectedQuestions, q) + InBucket(q, "numerical_reasoning")
    + InBucket(q, "consistency_checking") + InBucket(q, "temporal_reasoning")

\* The number of candidates in the lists of the subtasks.
Passed ==
    Len(by_subtask["numerical_reasoning"]) + Len(by_subtask["consistency_checking"])
    + Len(by_subtask["temporal_reasoning"])

\* The state part of C18.
C18_State ==
    /\ Passed + Len(rejected) = total_loaded
    /\ \A q \in BatchCandidates :
          /\ Routed(q) = Count(SubSeq(candidates, 1, total_loaded), q)
          /\ Count(RejectedQuestions, q) = 0 \/ Routed(q) = Count(RejectedQuestions, q)
          /\ \A st \in Subtasks : InBucket(q, st) > 0 => st = SubtaskOf(q)
    /\ \A k \in 1..Len(rejected) : rejected[k].reason # NoReason
    /\ total_loaded > 0 => (passed <=> reason = NoReason)

\* The step part of C18: validating does not change the candidates, and each
\* step of the loop appends one candidate to one list.
C18_Step ==
    /\ candidates' = candidates
    /\ total_loaded' # total_loaded
       => \/ /\ passed'
             /\ by_subtask' = [by_subtask EXCEPT ![SubtaskOf(candidates[total_loaded'])] =
                                   Append(@, candidates[total_loaded'])]
             /\ rejected' = rejected
          \/ /\ ~passed'
             /\ rejected' = Append(rejected, [question |-> candidates[total_loaded'],
                                              reason |-> reason'])
             /\ by_subtask' = by_subtask

\* C18: every candidate run() has loaded is in exactly one place: a candidate
\* that fails is once in the rejected list, with a reason that is not empty,
\* one that passes is once in the list of its subtask; validate_question
\* gives an empty reason exactly if it gives passed; the candidates that
\* passed and the rejected ones add up to the loaded ones, and validating
\* leaves the candidate as it is.
C18_RoutedExactlyOnce == [](C18_State) /\ [][C18_Step]_vars

-----------------------------------------------------------------------------
(* _sample_diverse *)

\* q.get("edinet_code", "unknown")
CompanyOf(q) == IF q.edinet_code = "absent" THEN "unknown" ELSE q.edinet_code

\* MAX_COMPANY_SHARE = 0.05
MAX_COMPANY_SHARE == [n |-> 1, d |-> 20]

\* A cap that is one question higher.
MaxPerCompany_OneMore(total) ==
    1 + (IF Trunc(QMul(QInt(total), MAX_COMPANY_SHARE)) > 3
         THEN Trunc(QMul(QInt(total), MAX_COMPANY_SHARE)) ELSE 3)

\* max_per_company = max(3, int(total_questions * MAX_COMPANY_SHARE))
MaxPerCompany(total) ==
    IF Trunc(QMul(QInt(total), MAX_COMPANY_SHARE)) > 3
    THEN Trunc(QMul(QInt(total), MAX_COMPANY_SHARE)) ELSE 3

\* The places of qs at which a company appears for the first time: where
\* by_company gets a new key.
FirstPlaces(qs) ==
    SelectSeq([k \in 1..Len(qs) |-> k],
              LAMBDA k : \A j \in 1..(k - 1) : CompanyOf(qs[j]) # CompanyOf(qs[k]))

\* company_codes = list(by_company.keys()): the companies of qs in the order
\* in which each appears first
CompanyCodes(qs) == [j \in 1..Len(FirstPlaces(qs)) |-> CompanyOf(qs[FirstPlaces(qs)[j]])]

\* The questions of the company with the last one first.
ByCompany_Reversed(qs, code) ==
    [k \in 1..Len(SelectSeq(qs, LAMBDA q : CompanyOf(q) = code)) |->
        SelectSeq(qs, LAMBDA q : CompanyOf(q) = code)
            [Len(SelectSeq(qs, LAMBDA q : CompanyOf(q) = code)) + 1 - k]]

\* by_company[code]: the questions of the company, in the order of qs
ByCompany(qs, code) == SelectSeq(qs, LAMBDA q : CompanyOf(q) = code)

\* The set of the keys of by_company
CodeSet(qs) == {CompanyOf(qs[k]) : k \in 1..Len(qs)}

\* _sample_diverse is entered: a list no longer than the target is returned
\* as it is; otherwise the questions are grouped by company and the counters
\* start at zero.
SampleCall ==
    /\ spc = "called"
    /\ IF Len(questions) <= target
       THEN /\ selected' = questions
            /\ spc' = "returned"
            /\ UNCHANGED <<company_counts, idx_per_company>>
       ELSE /\ selected' = <<>>
            /\ company_counts' = [c \in CodeSet(questions) |-> 0]
            /\ idx_per_company' = [c \in CodeSet(questions) |-> 0]
            /\ spc' = "while"
    /\ UNCHANGED <<questions, target, total_questions, q_k, company_caches, code_k,
                   added_this_round>>
    /\ UNCHANGED <<dslVars, metricVars, evalVars, runVars>>

\* while len(result) < target: added_this_round = False; for code in company_codes
RoundStart ==
    /\ spc = "while"
    /\ IF Len(selected) < target
       THEN /\ added_this_round' = FALSE
            /\ code_k' = 1
            /\ spc' = "for"
       ELSE /\ spc' = "returned"
            /\ UNCHANGED <<added_this_round, code_k>>
    /\ UNCHANGED <<questions, target, total_questions, selected, q_k, company_caches,
                   company_counts, idx_per_company>>
    /\ UNCHANGED <<dslVars, metricVars, evalVars, runVars>>

\* The body of the for loop without the break at the target.
VisitCompany_NoBreak(code, cap) ==
    IF company_counts[code] < cap /\ idx_per_company[code] < Len(ByCompany(questions, code))
    THEN /\ selected' = Append(selected, ByCompany(questions, code)[idx_per_company[code] + 1])
         /\ idx_per_company' = [idx_per_company EXCEPT ![code] = @ + 1]
         /\ company_counts' = [company_counts EXCEPT ![code] = @ + 1]
         /\ added_this_round' = TRUE
         /\ code_k' = code_k + 1
    ELSE /\ code_k' = code_k + 1
         /\ UNCHANGED <<selected, company_counts, idx_per_company, added_this_round>>

\* The body of the for loop for the company code: break when the target is
\* met, continue when the company is at its cap, else take the company's next
\* question if it has one.
VisitCompany(code, cap) ==
    IF Len(selected) >= target
    THEN /\ code_k' = Len(CompanyCodes(questions)) + 1
         /\ UNCHANGED <<selected, company_counts, idx_per_company, added_this_round>>
    ELSE IF company_counts[code] >= cap
    THEN /\ code_k' = code_k + 1
         /\ UNCHANGED <<selected, company_counts, idx_per_company, added_this_round>>
    ELSE IF idx_per_company[code] < Len(ByCompany(questions, code))
    THEN /\ selected' = Append(selected, ByCompany(questions, code)[idx_per_company[code] + 1])
         /\ idx_per_company' = [idx_per_company EXCEPT ![code] = @ + 1]
         /\ company_counts' = [company_counts EXCEPT ![code] = @ + 1]
         /\ added_this_round' = TRUE
         /\ code_k' = code_k + 1
    ELSE /\ code_k' = code_k + 1
         /\ UNCHANGED <<selected, company_counts, idx_per_company, added_this_round>>

\* One turn of the for loop
Visit ==
    /\ spc = "for"
    /\ code_k <= Len(CompanyCodes(questions))
    /\ VisitCompany(CompanyCodes(questions)[code_k], MaxPerCompany(total_questions))
    /\ UNCHANGED <<questions, target, total_questions, q_k, company_caches, spc>>
    /\ UNCHANGED <<dslVars, metricVars, evalVars, runVars>>

\* The for loop is left: if not added_this_round: break
RoundEnd ==
    /\ spc = "for"
    /\ code_k > Len(CompanyCodes(questions))
    /\ spc' = IF added_this_round THEN "while" ELSE "returned"
    /\ UNCHANGED <<questions, target, total_questions, selected, q_k, company_caches,
                   company_counts, idx_per_company, code_k, added_this_round>>
    /\ UNCHANGED <<dslVars, metricVars, evalVars, runVars>>

NextSample == SampleCall \/ RoundStart \/ Visit \/ RoundEnd

-----------------------------------------------------------------------------
(* Calls of _sample_diverse *)

\* Longest list of questions _sample_diverse and _deduplicate are called with.
MaxQuestions == 5

\* A question with the text txt of the company code ("absent": no edinet_code).
Question(txt, code) ==
    Candidate(QA(StrV(txt), StrV(<<"1">>), ListOf(<<Call(Chars_add, <<T_0, T_1>>)>>),
                 Evidence(<<"e">>)), "absent", code)

CompanyCodeValues == {"E1", "E2", "absent"}

\* Lists of questions, each with its place in the list as its text
SampleLists ==
    UNION {{[k \in 1..n |-> Question(NatText(k), cs[k])] : cs \in [1..n -> CompanyCodeValues]} :
             n \in 0..MaxQuestions}

\* The sizes of the dataset: caps of 3 and of 4 questions per company
SampleTotals == {20, 80}

\* _sample_diverse is called.
InitSample ==
    /\ DslIdle
    /\ MetricsIdle
    /\ EvalIdle
    /\ RunIdle
    /\ questions \in SampleLists
    /\ target \in 0..(MaxQuestions + 1)
    /\ total_questions \in SampleTotals
    /\ selected = <<>>
    /\ q_k = 0
    /\ company_caches = <<>>
    /\ company_counts = <<>>
    /\ idx_per_company = <<>>
    /\ code_k = 0
    /\ added_this_round = FALSE
    /\ spc = "called"

SpecSample == InitSample /\ [][NextSample]_vars

-----------------------------------------------------------------------------
(* C19 *)

\* The number of questions of the company code in the list qs.
OfCompany(qs, code) == Cardinality({k \in 1..Len(qs) : CompanyOf(qs[k]) = code})

\* C19: for every list of questions, target and total, the list
\* _sample_diverse returns holds at most max(3, int(total_questions * 0.05))
\* questions of any one company.
C19_CompanyCap ==
    spc = "returned"
    => \A code \in {"E1", "E2", "unknown"} :
          OfCompany(selected, code)
             <= (IF total_questions \div 20 > 3 THEN total_questions \div 20 ELSE 3)

-----------------------------------------------------------------------------
(* _deduplicate *)

\* _char_ngrams(text): the set of the trigrams of the normalized text
CharNgrams(text) ==
    {SubSeq(Normalize(text), k, k + 2) : k \in 1..(Len(Normalize(text)) - 2)}

\* _jaccard(a, b): 0.0 if one of the sets is empty
Jaccard(a, b) ==
    IF a = {} \/ b = {} THEN QInt(0)
    ELSE Norm(Cardinality(a \cap b), Cardinality(a \cup b))

\* threshold = 0.7
DedupThreshold == [n |-> 7, d |-> 10]

\* One cache for all companies.
DedupCompany_Shared(q) == "unknown"

\* company = q.get("edinet_code", "unknown")
DedupCompany(q) == IF q.edinet_code = "absent" THEN "unknown" ELSE q.edinet_code

\* is_dup: one of the cached trigram sets is more similar than the threshold
IsDup(q_ngrams, cache) ==
    \E k \in 1..Len(cache) : QLess(DedupThreshold, Jaccard(q_ngrams, cache[k]))

\* The loop body of _deduplicate for the question q of the company c
Keep(q, c) ==
    IF IsDup(CharNgrams(q.qa.question.s), company_caches[c])
    THEN UNCHANGED <<selected, company_caches>>
    ELSE /\ selected' = Append(selected, q)
         /\ company_caches' =
               [company_caches EXCEPT ![c] = Append(@, CharNgrams(q.qa.question.s))]

\* for q in questions: ...
DedupStep ==
    /\ spc = "dedup"
    /\ q_k < Len(questions)
    /\ q_k' = q_k + 1
    /\ Keep(questions[q_k + 1], DedupCompany(questions[q_k + 1]))
    /\ UNCHANGED <<questions, target, total_questions, company_counts, idx_per_company,
                   code_k, added_this_round, spc>>
    /\ UNCHANGED <<dslVars, metricVars, evalVars, runVars>>

\* return unique
DedupReturn ==
    /\ spc = "dedup"
    /\ q_k = Len(questions)
    /\ spc' = "returned"
    /\ UNCHANGED <<questions, target, total_questions, selected, q_k, company_caches,
                   company_counts, idx_per_company, code_k, added_this_round>>
    /\ UNCHANGED <<dslVars, metricVars, evalVars, runVars>>

NextDedup == DedupStep \/ DedupReturn

-----------------------------------------------------------------------------
(* Calls of _deduplicate *)

\* Longest list of questions _deduplicate is called with.
MaxDedup == 3

\* Question texts: aefrtu and its upper-case form (similarity 1), ae (no
\* trigram), abcdefghi and abcdefghijkl (0.7 with each other), abcdefghij
\* (0.875 and 0.8 with these two)
DedupTexts ==
    {<<"a", "e", "f", "r", "t", "u">>, <<"A", "E", "F", "R", "T", "U">>, <<"a", "e">>,
     <<"a", "b", "c", "d", "e", "f", "g", "h", "i">>,
     <<"a", "b", "c", "d", "e", "f", "g", "h", "i", "j", "k", "l">>,
     <<"a", "b", "c", "d", "e", "f", "g", "h", "i", "j">>}

DedupQuestions == {Question(txt, code) : txt \in DedupTexts, code \in {"E1", "absent"}}

DedupLists == UNION {[1..n -> DedupQuestions] : n \in 0..MaxDedup}

\* _deduplicate is called: unique = [], company_caches = defaultdict(list)
InitDedup ==
    /\ DslIdle
    /\ MetricsIdle
    /\ EvalIdle
    /\ RunIdle
    /\ questions \in DedupLists
    /\ target = 0
    /\ total_questions = 0
    /\ selected = <<>>
    /\ q_k = 0
    /\ company_caches = [c \in {"E1", "unknown"} |-> <<>>]
    /\ company_counts = <<>>
    /\ idx_per_company = <<>>
    /\ code_k = 0
    /\ added_this_round = FALSE
    /\ spc = "dedup"

SpecDedup == InitDedup /\ [][NextDedup]_vars

-----------------------------------------------------------------------------
(* C20 *)

\* The trigram Jaccard similarity of two questions is above 0.7.
TooSimilar(a, b) ==
    QLess([n |-> 7, d |-> 10], Jaccard(CharNgrams(a.qa.question.s), CharNgrams(b.qa.question.s)))

\* The places of qs[1..k] that survive: a place is dropped exactly if an
\* earlier surviving place of the same company is too similar to it.
RECURSIVE Survivors(_, _)
Survivors(qs, k) ==
    IF k = 0 THEN {}
    ELSE IF \E j \in Survivors(qs, k - 1) :
               CompanyOf(qs[j]) = CompanyOf(qs[k]) /\ TooSimilar(qs[j], qs[k])
    THEN Survivors(qs, k - 1)
    ELSE Survivors(qs, k - 1) \cup {k}

\* The questions of qs at the given places, in the order of qs.
RECURSIVE Pick(_, _)
Pick(qs, places) ==
    IF qs = <<>> THEN <<>>
    ELSE Pick(SubSeq(qs, 1, Len(qs) - 1), places)
         \o (IF Len(qs) \in places THEN <<qs[Len(qs)]>> ELSE <<>>)

\* The output of _deduplicate on the list qs, as C20 describes it.
Deduplicated(qs) == Pick(qs, Survivors(qs, Len(qs)))

\* C20: the output of _deduplicate is the input without some of its
\* questions, in the input's order; any two surviving questions of one
\* company have a trigram Jaccard similarity of at most 0.7; a question is
\* dropped only if an earlier surviving question of its company is more
\* similar to it than 0.7; and the survivors of a company are those its
\* questions alone would leave, whatever the other companies' questions are.
C20_Deduplicated ==
    spc = "returned"
    => /\ selected = Deduplicated(questions)
       /\ \A j, k \in 1..Len(selected) :
             j < k /\ CompanyOf(selected[j]) = CompanyOf(selected[k])
             => ~TooSimilar(selected[j], selected[k])
       /\ \A c \in {"E1", "unknown"} :
             ByCompany(selected, c) = Deduplicated(ByCompany(questions, c))

\* Of two similar questions of one company the second was dropped, and the
\* same text of another company, between them, stayed.
C20_Witness ==
    /\ spc = "returned"
    /\ Len(questions) = 3
    /\ CompanyOf(questions[1]) = CompanyOf(questions[3])
    /\ CompanyOf(questions[1]) # CompanyOf(questions[2])
    /\ questions[2].qa.question = questions[3].qa.question
    /\ TooSimilar(questions[1], questions[3])
    /\ questions[1] # questions[3]
    /\ selected = <<questions[1], questions[2]>>

-----------------------------------------------------------------------------
(* evaluate (src/jfinqa/evaluate.py)                                       *)

\* A Question as far as evaluate reads it: q.id, q.subtask, q.qa.question and
\* q.qa.answer.
Entry(id, subtask, question, ans) ==
    [id |-> id, subtask |-> subtask, question |-> question, answer |-> ans]

\* QuestionResult(question_id=, subtask=, predicted=, gold=, correct=)
QuestionResult(q, pred, ok) ==
    [question_id |-> q.id, subtask |-> q.subtask, predicted |-> pred,
     gold |-> q.answer, correct |-> ok]

\* SubtaskResult(accuracy=, total=, correct=)
SubtaskResult(n_total, n_correct) ==
    [accuracy |-> IF n_total > 0 THEN Norm(n_correct, n_total) ELSE QInt(0),
     total |-> n_total, correct |-> n_correct]

\* The messages of the three ValueErrors of evaluate and _get_match_fn.
ProvideEither == "ValueError: Provide either 'predictions' or 'model_fn'"
ProvideOnlyOne == "ValueError: Provide only one of 'predictions' or 'model_fn'"
UnknownMatchMode == "ValueError: Unknown match_mode"

EvalErrors == {ProvideEither, ProvideOnlyOne, UnknownMatchMode}

\* The modes _get_match_fn knows.
KnownModes == {"exact", "numerical"}

\* match_fn(pred, gold) for the match_fn that _get_match_fn(mode, tolerance)
\* returns for a known mode.
MatchFn(mode, tolerance, pred, gold_answer) ==
    IF mode = "exact" THEN ExactMatch(pred, gold_answer)
    ELSE NumericalMatch(pred, gold_answer, tolerance)

\* predictions.get(question.id, "")
PredictionFor(preds, id) == IF id \in DOMAIN preds THEN preds[id] ELSE <<>>

\* _get_prediction(question, predictions, model_fn): the dict is read when
\* it was given, the model is called with the question text otherwise.
GetPrediction(q, preds, fn) ==
    IF preds.given THEN PredictionFor(preds.value, q.id) ELSE fn.value[q.question]

\* The checks without the second one: a call with both arguments goes on.
EvaluateGuard_NoBothCheck(preds, fn, mode) ==
    IF ~preds.given /\ ~fn.given THEN ProvideEither
    ELSE IF mode \notin KnownModes THEN UnknownMatchMode
    ELSE "loop"

\* The first lines of evaluate: the two argument checks, then _get_match_fn.
EvaluateGuard(preds, fn, mode) ==
    IF ~preds.given /\ ~fn.given THEN ProvideEither
    ELSE IF preds.given /\ fn.given THEN ProvideOnlyOne
    ELSE IF mode \notin KnownModes THEN UnknownMatchMode
    ELSE "loop"

\* The count that takes every result for a correct one.
CountCorrect_All(rs) == Len(rs)

\* The number of results that are correct.
RECURSIVE CountCorrect(_)
CountCorrect(rs) ==
    IF rs = <<>> THEN 0
    ELSE (IF Head(rs).correct THEN 1 ELSE 0) + CountCorrect(Tail(rs))

\* by_subtask[name]: the results of one subtask, in order.
RECURSIVE OfSubtask(_, _)
OfSubtask(rs, name) ==
    IF rs = <<>> THEN <<>>
    ELSE IF Head(rs).subtask = name THEN <<Head(rs)>> \o OfSubtask(Tail(rs), name)
    ELSE OfSubtask(Tail(rs), name)

\* The keys of by_subtask: the subtasks of the results.
SubtasksOf(rs) == {rs[k].subtask : k \in 1..Len(rs)}

\* _aggregate(results); the dict by_subtask is the function from its keys.
Aggregate(rs) ==
    [accuracy |-> IF Len(rs) > 0 THEN Norm(CountCorrect(rs), Len(rs)) ELSE QInt(0),
     total |-> Len(rs),
     correct |-> CountCorrect(rs),
     by_subtask |->
        [name \in SubtasksOf(rs) |->
            SubtaskResult(Len(OfSubtask(rs, name)), CountCorrect(OfSubtask(rs, name)))],
     results |-> rs]

\* evaluate is entered: the argument checks and _get_match_fn, before the loop.
EvaluateCall ==
    /\ epc = "called"
    /\ epc' = EvaluateGuard(predictions, model_fn, match_mode)
    /\ UNCHANGED <<entries, predictions, model_fn, match_mode, numerical_tolerance,
                   scored, model_calls, benchmark>>
    /\ UNCHANGED <<dslVars, metricVars, pipeVars>>

\* One turn of "for q in questions": the prediction is fetched, matched with
\* the gold answer and the QuestionResult appended.
ScoreEntry ==
    /\ epc = "loop"
    /\ Len(scored) < Len(entries)
    /\ scored' =
          Append(scored,
                 QuestionResult(entries[Len(scored) + 1],
                                GetPrediction(entries[Len(scored) + 1], predictions, model_fn),
                                MatchFn(match_mode, numerical_tolerance,
                                        GetPrediction(entries[Len(scored) + 1],
                                                      predictions, model_fn),
                                        entries[Len(scored) + 1].answer)))
    /\ model_calls' = IF predictions.given THEN model_calls ELSE model_calls + 1
    /\ UNCHANGED <<entries, predictions, model_fn, match_mode, numerical_tolerance,
                   benchmark, epc>>
    /\ UNCHANGED <<dslVars, metricVars, pipeVars>>

\* The loop is over: return _aggregate(results).
AggregateReturn ==
    /\ epc = "loop"
    /\ Len(scored) = Len(entries)
    /\ benchmark' = Aggregate(scored)
    /\ epc' = "returned"
    /\ UNCHANGED <<entries, predictions, model_fn, match_mode, numerical_tolerance,
                   scored, model_calls>>
    /\ UNCHANGED <<dslVars, metricVars, pipeVars>>

NextEvaluate == EvaluateCall \/ ScoreEntry \/ AggregateReturn

-----------------------------------------------------------------------------
(* Calls of evaluate *)

\* Longest list of questions evaluate is called with.
MaxEntries == 2

EntryIds == {"q1", "q2"}

\* q.qa.question of the question with a given id.
QuestionOf(id) == IF id = "q1" THEN <<"a">> ELSE <<"b">>

\* Two of the three subtasks are enough for a list to hold several.
EntrySubtasks == {"numerical_reasoning", "consistency_checking"}

\* Gold answers: a number, a word, and the empty answer.
GoldTexts == {T_1, T_ae, <<>>}

\* Predicted answers: the gold answers and a number within 1% of none of them.
PredictedTexts == GoldTexts \cup {T_2}

\* The numeral of 10^309, a 1 and 309 zeros, which float() reads as inf.
T_1e309 == [k \in 1..310 |-> IF k = 1 THEN "1" ELSE "0"]

Entries ==
    {Entry(id, st, QuestionOf(id), ans) : id \in EntryIds, st \in EntrySubtasks, ans \in GoldTexts}

EntryLists == UNION {[1..n -> Entries] : n \in 0..MaxEntries}

\* The dicts of predictions: any set of ids, any answers.
PredictionDicts == UNION {[ids -> PredictedTexts] : ids \in SUBSET EntryIds}

\* The models: any answer to each question text.
ModelFns == [{QuestionOf(id) : id \in EntryIds} -> {T_1, T_ae}]

PredictionArgs == {NotGiven} \cup {Given(d) : d \in PredictionDicts}
ModelArgs == {NotGiven} \cup {Given(f) : f \in ModelFns}

MatchModes == KnownModes \cup {"fuzzy"}

EvalTolerances == {QInt(0), [n |-> 1, d |-> 100]}

\* Calls for one question whose gold answer is the numeral of 10^309, with
\* that numeral, another number or nothing as its prediction.
OverflowLists == {<<Entry("q1", st, QuestionOf("q1"), T_1e309)>> : st \in EntrySubtasks}

OverflowArgs ==
    {Given(d) : d \in UNION {[ids -> {T_1e309, T_1}] : ids \in SUBSET {"q1"}}}

\* evaluate(questions, predictions=, model_fn=, match_mode=, numerical_tolerance=)
InitEvaluate ==
    /\ \/ /\ entries \in EntryLists
          /\ predictions \in PredictionArgs
          /\ model_fn \in ModelArgs
       \/ /\ entries \in OverflowLists
          /\ predictions \in OverflowArgs
          /\ model_fn = NotGiven
    /\ match_mode \in MatchModes
    /\ numerical_tolerance \in EvalTolerances
    /\ scored = <<>>
    /\ model_calls = 0
    /\ benchmark = NoBenchmark
    /\ epc = "called"
    /\ DslIdle
    /\ MetricsIdle
    /\ PipeIdle

SpecEvaluate == InitEvaluate /\ [][NextEvaluate]_vars

-----------------------------------------------------------------------------
(* C21 *)

\* Exactly one of predictions and model_fn was given.
ExactlyOneSource == predictions.given # model_fn.given

\* C21: evaluate requires exactly one of predictions and model_fn.  Called
\* with neither it raises the ValueError "Provide either ...", called with
\* both the ValueError "Provide only one ...", and in both cases it does so
\* before any entry is scored and before model_fn is called (nothing is
\* returned).  Called with exactly one of them and a known match_mode it
\* raises no ValueError at all: it is in the loop or has returned.
C21_ExactlyOneSource ==
    /\ (epc # "called" /\ ~predictions.given /\ ~model_fn.given) => epc = ProvideEither
    /\ (epc # "called" /\ predictions.given /\ model_fn.given) => epc = ProvideOnlyOne
    /\ epc \in {ProvideEither, ProvideOnlyOne} =>
          /\ ~ExactlyOneSource
          /\ scored = <<>>
          /\ model_calls = 0
          /\ benchmark = NoBenchmark
    /\ (ExactlyOneSource /\ match_mode \in KnownModes) => epc \in {"called", "loop", "returned"}

\* A call with both a dict and a model, for a non-empty list of questions,
\* has raised.
C21_Witness ==
    /\ epc = ProvideOnlyOne
    /\ predictions.given /\ model_fn.given
    /\ Len(entries) > 0

-----------------------------------------------------------------------------
(* C22 *)

\* The k-th question has no prediction in the dict evaluate was given.
MissingPrediction(k) ==
    /\ predictions.given
    /\ entries[k].id \notin DOMAIN predictions.value

\* C22: a missing prediction is tolerated and scored as incorrect.  For every
\* question whose id is not a key of the predictions dict, evaluate raises
\* nothing and the question's result has predicted = "" and correct = False,
\* in both match modes and whatever the gold answer is.
C22_MissingPredictionIncorrect ==
    \A k \in 1..Len(scored) :
        MissingPrediction(k) =>
            /\ epc \in {"loop", "returned"}
            /\ scored[k].predicted = <<>>
            /\ ~scored[k].correct

-----------------------------------------------------------------------------
(* C23 *)

\* The places of the results that are correct, and those of one subtask.
CorrectPlaces(rs) == {k \in 1..Len(rs) : rs[k].correct}
SubtaskPlaces(rs, name) == {k \in 1..Len(rs) : rs[k].subtask = name}

\* acc is the float n_correct / n_total, and 0.0 when n_total is 0.
IsAccuracy(acc, n_correct, n_total) ==
    IF n_total > 0 THEN acc.d > 0 /\ acc.n * n_total = n_correct * acc.d
    ELSE acc = QInt(0)

\* The sum of field over the entries of the dict by_subtask with keys names.
RECURSIVE SumOver(_, _, _)
SumOver(subs, names, field) ==
    IF names = {} THEN 0
    ELSE subs[CHOOSE x \in names : TRUE][field]
            + SumOver(subs, names \ {CHOOSE x \in names : TRUE}, field)

\* C23: the BenchmarkResult evaluate returns.  results has one record per
\* question, in the order of the questions (its id, its subtask, its gold
\* answer); total is the number of questions; correct is the number of
\* records that are correct, so 0 <= correct <= total; accuracy is
\* correct/total, and 0.0 for no question (no division error); by_subtask has
\* exactly the subtasks present among the questions, each with its own total,
\* correct count and accuracy, and the totals and the correct counts of
\* by_subtask sum to the overall total and correct.
C23_AggregateConsistent ==
    epc = "returned" =>
        /\ Len(benchmark.results) = Len(entries)
        /\ \A k \in 1..Len(entries) :
              /\ benchmark.results[k].question_id = entries[k].id
              /\ benchmark.results[k].subtask = entries[k].subtask
              /\ benchmark.results[k].gold = entries[k].answer
        /\ benchmark.total = Len(entries)
        /\ benchmark.correct = Cardinality(CorrectPlaces(benchmark.results))
        /\ 0 <= benchmark.correct /\ benchmark.correct <= benchmark.total
        /\ IsAccuracy(benchmark.accuracy, benchmark.correct, benchmark.total)
        /\ DOMAIN benchmark.by_subtask = {entries[k].subtask : k \in 1..Len(entries)}
        /\ \A name \in DOMAIN benchmark.by_subtask :
              /\ benchmark.by_subtask[name].total =
                    Cardinality(SubtaskPlaces(benchmark.results, name))
              /\ benchmark.by_subtask[name].correct =
                    Cardinality(SubtaskPlaces(benchmark.results, name)
                                    \cap CorrectPlaces(benchmark.results))
              /\ IsAccuracy(benchmark.by_subtask[name].accuracy,
                            benchmark.by_subtask[name].correct,
                            benchmark.by_subtask[name].total)
        /\ SumOver(benchmark.by_subtask, DOMAIN benchmark.by_subtask, "total") = benchmark.total
        /\ SumOver(benchmark.by_subtask, DOMAIN benchmark.by_subtask, "correct")
              = benchmark.correct

\* evaluate has returned for two questions of different subtasks, one of them
\* answered correctly.
C23_Witness ==
    /\ epc = "returned"
    /\ Len(entries) = 2
    /\ entries[1].subtask # entries[2].subtask
    /\ benchmark.correct = 1
    /\ benchmark.accuracy = [n |-> 1, d |-> 2]

\* evaluate has returned for no question at all.
C23_EmptyList ==
    /\ epc = "returned"
    /\ entries = <<>>
    /\ benchmark.total = 0
    /\ benchmark.accuracy = QInt(0)

-----------------------------------------------------------------------------
(* C24 *)

\* The prediction evaluate gets for the k-th question is that question's gold
\* answer.
PredictsGold(k) ==
    GetPrediction(entries[k], predictions, model_fn) = entries[k].answer

\* C24: when the prediction for every question is identical to the question's
\* gold answer, evaluate reports accuracy 1.0 overall and for every subtask
\* present, in exact and in numerical match mode with a tolerance that is not
\* negative: every answer matches itself.  (For no question at all the
\* accuracy is 0.0, C23; the lists here have at least one question.)
C24_IdenticalIsPerfect ==
    (/\ epc = "returned"
     /\ Len(entries) > 0
     /\ \A k \in 1..Len(entries) : PredictsGold(k))
    => /\ benchmark.accuracy = QInt(1)
       /\ \A name \in DOMAIN benchmark.by_subtask :
             benchmark.by_subtask[name].accuracy = QInt(1)

-----------------------------------------------------------------------------
(* The validator's answer matching beside the library's *)

\* _numerical_match(predicted, gold, tolerance) of s4_validate
ValidatorMatchAt(p, g, t) ==
    ValidatorVerdict(ExtractFirstNumber(p), ExtractFirstNumber(g), Normalize(p) = Normalize(g), t)

\* Both matchers are applied to predicted and gold: whether the two answers
\* are equal after normalize_answer and after _normalize, and what
\* numerical_match and _numerical_match return at the same tolerance.
CompareMatchers ==
    /\ mpc = "start"
    /\ compared' =
          [lib_equal |-> NormalizeAnswer(predicted) = NormalizeAnswer(gold),
           own_equal |-> Normalize(predicted) = Normalize(gold),
           lib_match |-> NumericalMatch(predicted, gold, rel_tolerance),
           own_match |-> ValidatorMatchAt(predicted, gold, rel_tolerance)]
    /\ mpc' = "done"
    /\ UNCHANGED <<answer, normalized, renormalized, predicted, gold, rel_tolerance,
                   pred_num, gold_num, verdict>>
    /\ UNCHANGED <<dslVars, evalVars, pipeVars>>

\* Answers as the generator and the models write them: numbers with commas,
\* triangles, signs, percent signs, units and scale words, and words with and
\* without a verb ending or capitals.
MirrorTexts ==
    {T_0, T_1, T_1c000, <<"1", "0", "0", "0">>, <<"1", ".", "0">>,
     <<"-", "1">>, <<"TRI_W", "1">>, <<"1", "%">>, <<"1", "J_yen">>,
     <<"1", "J_sen">>, <<"1", "J_sen", "J_yen">>,
     T_5em05, T_ae, <<"A", "E">>, <<"a", ",", "e">>,
     <<"J_kai", "J_zen">>, <<"J_kai", "J_zen", "H_shi", "H_ta">>}

\* Answers at and next to zero (kept apart from the thousands above: the
\* quotient of the two is beyond the integers of the checker).
ZeroTexts == {T_0, <<"0", ".", "0", "0", "0", "5">>, <<"-", "0">>, T_1}

MirrorTolerances == {ANSWER_TOLERANCE, [n |-> 1, d |-> 100]}

InitMirror ==
    /\ \/ predicted \in MirrorTexts /\ gold \in MirrorTexts
       \/ predicted \in ZeroTexts /\ gold \in ZeroTexts
    /\ rel_tolerance \in MirrorTolerances
    /\ answer = <<>>
    /\ normalized = <<>>
    /\ renormalized = <<>>
    /\ pred_num = NoNumber
    /\ gold_num = NoNumber
    /\ verdict = FALSE
    /\ compared = NotCompared
    /\ mpc = "start"
    /\ DslIdle
    /\ EvalIdle
    /\ PipeIdle

SpecMirror == InitMirror /\ [][CompareMatchers]_vars

-----------------------------------------------------------------------------
(* C25 *)

\* C25: the validator's private answer matching mirrors the library's.  For
\* every pair of answers, _normalize and normalize_answer agree on whether
\* the two answers are equal after normalization, and at the same tolerance
\* _numerical_match returns what numerical_match returns.
C25_ValidatorMirrorsLibrary ==
    mpc = "done" =>
        /\ compared.own_equal = compared.lib_equal
        /\ compared.own_match = compared.lib_match

-----------------------------------------------------------------------------
(* C26 *)

\* The questions of the company code in the list qs, in the order of qs.
FromCompany(qs, code) == SelectSeq(qs, LAMBDA q : CompanyOf(q) = code)

\* The companies of the questions _sample_diverse was called with.
Companies == {CompanyOf(questions[k]) : k \in 1..Len(questions)}

\* C26: the sampler fills by company coverage before depth.  In the list
\* _sample_diverse returns, the questions taken from each company are the
\* first ones of that company in input order, no question is taken twice, and
\* for any two companies A and B, if A has at least two more questions in the
\* list than B then every question of B is in the list.
C26_CoverageBeforeDepth ==
    spc = "returned" =>
        /\ \A code \in Companies :
              /\ Len(FromCompany(selected, code)) <= Len(FromCompany(questions, code))
              /\ FromCompany(selected, code)
                    = SubSeq(FromCompany(questions, code), 1, Len(FromCompany(selected, code)))
        /\ \A j, k \in 1..Len(selected) : j # k => selected[j] # selected[k]
        /\ \A k \in 1..Len(selected) : CompanyOf(selected[k]) \in Companies
        /\ \A a, b \in Companies :
              Len(FromCompany(selected, a)) >= Len(FromCompany(selected, b)) + 2
                 => FromCompany(selected, b) = FromCompany(questions, b)

\* The round-robin has returned a list in which one company has two more
\* questions than another, and left a question out.
C26_Witness ==
    /\ spc = "returned"
    /\ Len(questions) > target
    /\ Len(selected) < Len(questions)
    /\ \E a, b \in Companies :
          /\ Len(FromCompany(selected, b)) >= 1
          /\ Len(FromCompany(selected, a)) >= Len(FromCompany(selected, b)) + 2

-----------------------------------------------------------------------------
(* C27 *)

\* _sample_diverse runs to its end: a sequential function takes its next
\* step whenever it has one.
SpecSampleFair == SpecSample /\ WF_vars(NextSample)

\* The cap of the call, max(3, int(total_questions * 0.05)).
CapOfCall == IF total_questions \div 20 > 3 THEN total_questions \div 20 ELSE 3

\* What a company can contribute: its questions, up to the cap.
Contribution(code) ==
    IF Len(FromCompany(questions, code)) < CapOfCall
    THEN Len(FromCompany(questions, code)) ELSE CapOfCall

\* The sum of the contributions of the companies codes.
RECURSIVE Contributions(_)
Contributions(codes) ==
    IF codes = {} THEN 0
    ELSE Contribution(CHOOSE c \in codes : TRUE)
            + Contributions(codes \ {CHOOSE c \in codes : TRUE})

\* What the list returned by _sample_diverse looks like.
SampleSize ==
    spc = "returned" =>
        /\ Len(selected) <= target
        /\ Len(selected) < target =>
              \A code \in Companies :
                 \/ Len(FromCompany(selected, code)) >= CapOfCall
                 \/ Len(FromCompany(selected, code)) = Len(FromCompany(questions, code))
        /\ Len(questions) > target =>
              Len(selected) = (IF target < Contributions(Companies)
                               THEN target ELSE Contributions(Companies))

\* C27: the round-robin loop of _sample_diverse terminates for every input,
\* and when it stops the list has no more than target questions, and fewer
\* than target only if every company is at the cap or has all its questions
\* in the list: when sampling takes place, the size of the list is the
\* smaller of target and the sum over the companies of min(cap, available).
C27_TerminatesWithSize == <>(spc = "returned") /\ [](SampleSize)

\* The round-robin has stopped short of the target: every company is at the
\* cap or exhausted, one of them at the cap with a question left.
C27_Witness ==
    /\ spc = "returned"
    /\ Len(questions) > target
    /\ Len(selected) < target
    /\ \E code \in Companies :
          /\ Len(FromCompany(selected, code)) = CapOfCall
          /\ Len(FromCompany(questions, code)) > CapOfCall

-----------------------------------------------------------------------------
(* C28 *)

\* What is wrong with step k, by the order of the checks: its text is not
\* of the form name(...), its operator is unknown, an argument cannot be
\* resolved against the results before it, the operator raises; "" when
\* nothing is.
FaultOf(k) ==
    IF ~StepMatch(StepText(k)).ok THEN "cannot parse"
    ELSE IF StepMatch(StepText(k)).op_name \notin OpNames THEN "unknown operation"
    ELSE IF ResolveAll(SplitArgs(StepMatch(StepText(k)).args_str), EnvOf(k), <<>>).exc # "none"
    THEN "argument error"
    ELSE IF ApplyOp(StepMatch(StepText(k)).op_name,
                    ResolveAll(SplitArgs(StepMatch(StepText(k)).args_str),
                               EnvOf(k), <<>>).vals).exc # "none"
    THEN "execution error"
    ELSE ""

\* The error of a call that raised is the one execution order gives.
C28_State ==
    /\ (pc = "raised" /\ program = <<>>) =>
          /\ outcome = DSLError("Empty program", -1, <<>>)
          /\ i = 0
          /\ results = <<>>
    /\ (pc = "raised" /\ program # <<>>) =>
          /\ i < Len(program)
          /\ Len(results) = i
          /\ \A k \in 0..(i - 1) : FaultOf(k) = ""
          /\ FaultOf(i) # ""
          /\ outcome.kind = "DSLError" => outcome = DSLError(FaultOf(i), i, StepText(i))
    /\ pc = "start" => (i = 0 /\ results = <<>>)

\* Nothing is evaluated once the call has raised.
C28_Step == pc = "raised" => UNCHANGED vars

\* C28: execute_program reports errors in execution order: an empty program
\* raises DSLError before anything is evaluated; otherwise the DSLError names
\* the first faulty step, every step before it has succeeded and no step
\* after it is evaluated; within a step the checks are made in the order
\* grammar match, operator lookup, argument resolution, operator application,
\* so a step with an unknown operator and a bad reference is reported as an
\* unknown operation.
C28_ErrorsInExecutionOrder == [](C28_State) /\ [][C28_Step]_vars

\* A second step with an unknown operator and a bad back-reference has been
\* reported as an unknown operation.
C28_Witness ==
    /\ pc = "raised"
    /\ i = 1
    /\ StepMatch(StepText(1)).ok
    /\ StepMatch(StepText(1)).op_name \notin OpNames
    /\ \E j \in 1..Len(TokensOf(1)) : BadRef(TokensOf(1)[j], 1)
    /\ outcome.msg = "unknown operation"

-----------------------------------------------------------------------------
(* C29 *)

\* The list results of execute_program when the loop ends, by a return or by
\* a raise: the values of the steps that were evaluated.
RECURSIVE StepResults(_, _, _)
StepResults(prog, k, res) ==
    IF k = Len(prog) THEN res
    ELSE IF RunStep(prog[k + 1], k, res).outcome.kind = "none"
    THEN StepResults(prog, k + 1, Append(res, RunStep(prog[k + 1], k, res).result))
    ELSE res

\* A step of the candidate's program, the last one or one before it,
\* evaluated to an infinity or nan.
SentinelStep(q) ==
    /\ q.qa.program.kind = "list"
    /\ \E k \in 1..Len(StepResults(q.qa.program.steps, 0, <<>>)) :
          Sentinel(StepResults(q.qa.program.steps, 0, <<>>)[k])

\* C29: division-by-zero sentinels do not slip into accepted candidates:
\* whenever validate_question accepts a candidate, no step of its program,
\* the last one or one before it (a divide by zero whose result feeds a later
\* greater, less, eq or min step), evaluated to the infinity sentinel.
C29_NoSentinelStepAccepted ==
    (total_loaded > 0 /\ rpc \in {"loop", "done"} /\ passed) => ~SentinelStep(LastCandidate)

-----------------------------------------------------------------------------
(* C30 *)

\* Two questions of one company (two without a company code among them) with
\* the same question text.
SameCompanyAndText(a, b) ==
    CompanyOf(a) = CompanyOf(b) /\ a.qa.question = b.qa.question

\* C30: of two candidates of the same company (two candidates that both lack
\* a company code included) with identical question text at most one
\* survives _deduplicate, whatever the length of the text.
C30_IdenticalTextsDeduplicated ==
    spc = "returned"
    => \A j, k \in 1..Len(selected) :
          j < k => ~SameCompanyAndText(selected[j], selected[k])

=============================================================================
